---------------------------- MODULE Spec2Model ----------------------------
(***************************************************************************)
(* A model of the ZahraSnaps gallery client:                               *)
(*   - src/src/lib/supabase.ts: checkOnline, withRetry, the client's       *)
(*     fetch wrapper and supabaseOperation;                                *)
(*   - src/src/contexts/AuthContext.tsx: the AuthProvider state;           *)
(*   - src/src/pages/Gallery.tsx: the folder and media operations.         *)
(* Each part has its own next-state relation and specification over the    *)
(* one set of variables; the variables of the other parts stay as Init     *)
(* left them.                                                              *)
(***************************************************************************)
EXTENDS Integers, Sequences, FiniteSets

VARIABLES
    \* ---- lib/supabase.ts ----
    online,        \* window.navigator.onLine
    listeners,     \* number of 'online' handlers withRetry has registered
    caller,        \* who called withRetry: "none", "fetch", "supabaseOperation"
    errorMessage,  \* supabaseOperation's errorMessage argument (the label)
    onlineAtCall,  \* history: navigator.onLine when the call was made
    pc,            \* "idle", "waitOnline", "inOp", "backoff", "done"
    i,             \* withRetry's loop index
    lastError,     \* withRetry's lastError
    attempts,      \* history: number of invocations of operation()
    delays,        \* history: the setTimeout delays awaited, in order
    onlineWaits,   \* history: number of waits for an 'online' event
    hist,          \* history: how each invocation of operation() settled
    retryResult,   \* what withRetry gave its direct caller
    outcome,       \* what the fetch wrapper / supabaseOperation gave its caller
    \* ---- contexts/AuthContext.tsx ----
    mounted,       \* "no", "yes", "gone": the provider's effect has run / was cleaned up
    user,          \* useState user
    session,       \* useState session
    loading,       \* useState loading
    getSession,    \* the getSession() promise of line 30: [st, value]
    clientSession, \* the session the auth client holds (persistSession)
    signOutPc,     \* "idle", or "awaiting" supabase.auth.signOut() (line 55)
    signOutResult, \* history: how the latest completed signOut's remote call ended
    signedInSince, \* history: a sign-in succeeded since the latest signOut completed
    lastStep,      \* history: the latest step of the provider
    lastEvent,     \* history: the session of the latest auth-state-change event
    \* ---- pages/Gallery.tsx ----
    photosTable,   \* backend: the rows of the 'photos' table
    foldersTable,  \* backend: the rows of the 'folders' table
    folders,       \* useState folders: the ids of the folders shown
    currentFolder, \* useState currentFolder
    fetchingFolders, \* a fetchFolders() call is in flight
    df,            \* the deleteFolder invocations in flight, by slot
    dfResult,      \* history: how the latest deleteFolder to finish ended
    storage,       \* backend: the keys of the objects in the 'photos' bucket
    media,         \* useState media: the ids of the rows shown
    selectedMedia, \* useState selectedMedia: the id of the item in the modal
    isMobileMenuOpen, \* useState isMobileMenuOpen
    isUploading,   \* useState isUploading
    uploadProgress, \* useState uploadProgress
    isDeletingMedia, \* useState isDeletingMedia
    isLoading,     \* useState isLoading
    error,         \* useState error: the banner is set
    navigated,     \* navigate('/login') has been called
    deps,          \* the [user, currentFolder] the effect last ran with
    ld,            \* the loadData runs in flight
    fm,            \* the fetchMedia() calls in flight that nobody awaits
    up,            \* the handleFileUpload invocations in flight
    cf,            \* the createFolder invocations in flight
    dm,            \* the deleteMedia invocations in flight
    alert          \* the alert() dialog that is open, which blocks the page

retryVars == <<online, listeners, caller, errorMessage, onlineAtCall, pc, i,
               lastError, attempts, delays, onlineWaits, hist, retryResult,
               outcome>>

authVars == <<mounted, user, session, loading, getSession, clientSession,
              signOutPc, signOutResult, signedInSince, lastStep, lastEvent>>

viewVars == <<storage, media, selectedMedia, isMobileMenuOpen, isUploading,
              uploadProgress, isDeletingMedia, isLoading, error, navigated,
              deps, ld, fm, up, cf, dm, alert>>

galleryVars == <<photosTable, foldersTable, folders, currentFolder,
                 fetchingFolders, df, dfResult, viewVars>>

vars == <<retryVars, authVars, galleryVars>>

---------------------------------------------------------------------------
(* JavaScript values, as far as the code looks at them. *)

JsNull        == [t |-> "null"]
JsUndefined   == [t |-> "undefined"]
JsEmptyString == [t |-> "string", len |-> 0]
JsZero        == [t |-> "number", val |-> 0]
JsEmptyArray  == [t |-> "array", len |-> 0]
JsRows        == [t |-> "array", len |-> 2]
JsResponse    == [t |-> "Response"]

\* An Error object; a message is a sequence of text pieces, "" is <<>>.
JsError(msg) == [t |-> "Error", message |-> msg]

\* Truthy, were an empty array taken for no data.
TruthyArrayFalsy(v) ==
    v.t \notin {"null", "undefined"}
    /\ (v.t \in {"string", "array"} => v.len > 0)
    /\ (v.t = "number" => v.val # 0)

\* ToBoolean, as `if (error)`, `!data` and `a || b` apply it.
Truthy(v) ==
    /\ v.t \notin {"null", "undefined"}
    /\ (v.t = "string" => v.len > 0)
    /\ (v.t = "number" => v.val # 0)

\* Messages of the errors the operations may report.
ErrorMessages == {<<>>, <<"boom">>}
ErrorObjects  == {JsError(m) : m \in ErrorMessages}

\* What operation() may reject with: an Error, or nothing at all.
Rejections == ErrorObjects \cup {JsUndefined}

\* What a supabaseOperation thunk may resolve to: {data, error}.
DataValues == {JsNull, JsUndefined, JsEmptyString, JsZero, JsEmptyArray, JsRows}
ThunkResults == [data : DataValues, error : {JsNull} \cup ErrorObjects]

\* The labels the Gallery passes (Gallery.tsx lines 67 and 85).
Labels == {"Error fetching media", "Error fetching folders"}

NoResult == [kind |-> "none"]
Returned(v) == [kind |-> "return", value |-> v]
Thrown(v)   == [kind |-> "throw", value |-> v]

Resolved(v) == [kind |-> "resolve", value |-> v]
Rejected(v) == [kind |-> "reject", value |-> v]

---------------------------------------------------------------------------
(* lib/supabase.ts *)

maxRetries == 5
baseDelay  == 1000

checkOnline == online

\* Delay, were the backoff linear.
DelayLinear(k) == baseDelay * (k + 1)

\* line 40: baseDelay * Math.pow(2, i)
Delay(k) == baseDelay * 2^k

\* line 39: a backoff follows every failure but the last
WaitsAfter(k) == k < maxRetries - 1

\* NextLastError, were the first error kept.
KeepFirstError(prev, e) == IF prev = JsUndefined THEN e ELSE prev

\* line 38: lastError = error
NextLastError(prev, e) == e

\* line 79
ConnectivityError ==
    JsError(<<"Unable to connect to the server. Please check your internet connection.">>)

\* line 91
OfflineError ==
    JsError(<<"You are currently offline. Please check your internet connection.">>)

\* line 103
NoDataError == JsError(<<"No data returned from server">>)

\* Reading .message of null or undefined (line 108) throws this.
TypeErrorOnMessage ==
    [t |-> "TypeError",
     message |-> <<"Cannot read properties of undefined (reading 'message')">>]

\* Wrap, were the label left out of line 110.
WrapUnlabelled(label, e) ==
    IF e.t \in {"null", "undefined"}
    THEN Thrown(TypeErrorOnMessage)
    ELSE Thrown(JsError(IF e.message # <<>> THEN e.message
                        ELSE <<"An unexpected error occurred">>))

\* lines 107-111: supabaseOperation's catch block, given the error caught
Wrap(label, e) ==
    IF e.t \in {"null", "undefined"}
    THEN Thrown(TypeErrorOnMessage)
    ELSE Thrown(JsError(<<label, ": ">> \o
                        (IF e.message # <<>> THEN e.message
                         ELSE <<"An unexpected error occurred">>)))

\* HandleResult, were the test of lines 97-100 missing.
HandleResultNoErrorCheck(label, res) ==
    IF ~Truthy(res.data) THEN Wrap(label, NoDataError)
    ELSE Returned(res.data)

\* lines 95-106: what supabaseOperation does with the result withRetry returned
HandleResult(label, res) ==
    IF Truthy(res.error) THEN Wrap(label, res.error)
    ELSE IF ~Truthy(res.data) THEN Wrap(label, NoDataError)
    ELSE Returned(res.data)

\* What the caller of withRetry does when withRetry returns v.
CallerOnReturn(v) ==
    IF caller = "fetch" THEN Returned(v)                \* line 73
    ELSE HandleResult(errorMessage, v)

\* What the caller of withRetry does when withRetry throws e.
CallerOnThrow(e) ==
    IF caller = "fetch" THEN Thrown(ConnectivityError)  \* lines 77-80
    ELSE Wrap(errorMessage, e)                          \* lines 107-111

\* lines 23-46: the loop from the test `i < maxRetries` with i = k, up to the
\* next await (or the throw of line 46); att, ows, lst are the counts so far
\* and le is lastError.
LoopFrom(k, att, ows, lst, le) ==
    /\ i' = k
    /\ IF k < maxRetries
       THEN /\ retryResult' = NoResult
            /\ outcome' = NoResult
            /\ IF checkOnline
               THEN /\ pc' = "inOp"              \* line 36: operation()
                    /\ attempts' = att + 1
                    /\ listeners' = lst
                    /\ onlineWaits' = ows
               ELSE /\ pc' = "waitOnline"        \* lines 27-33
                    /\ attempts' = att
                    /\ listeners' = lst + 1
                    /\ onlineWaits' = ows + 1
       ELSE /\ pc' = "done"                      \* line 46: throw lastError
            /\ attempts' = att
            /\ listeners' = lst
            /\ onlineWaits' = ows
            /\ retryResult' = Thrown(le)
            /\ outcome' = CallerOnThrow(le)

\* lines 62-76: the client's fetch wrapper calls withRetry(() => fetch(...))
StartFetch ==
    /\ pc \in {"idle", "done"}
    /\ caller' = "fetch"
    /\ errorMessage' = ""
    /\ onlineAtCall' = online
    /\ lastError' = JsUndefined
    /\ delays' = <<>>
    /\ hist' = <<>>
    /\ LoopFrom(0, 0, 0, listeners, JsUndefined)
    /\ UNCHANGED online
    /\ UNCHANGED <<authVars, galleryVars>>

\* StartOperation, were the check of lines 90-92 missing.
StartOperationNoPrecondition(label) ==
    /\ pc \in {"idle", "done"}
    /\ caller' = "supabaseOperation"
    /\ errorMessage' = label
    /\ onlineAtCall' = online
    /\ lastError' = JsUndefined
    /\ delays' = <<>>
    /\ hist' = <<>>
    /\ LoopFrom(0, 0, 0, listeners, JsUndefined)
    /\ UNCHANGED online
    /\ UNCHANGED <<authVars, galleryVars>>

\* lines 86-95: supabaseOperation(operation, errorMessage)
StartOperation(label) ==
    /\ pc \in {"idle", "done"}
    /\ caller' = "supabaseOperation"
    /\ errorMessage' = label
    /\ onlineAtCall' = online
    /\ lastError' = JsUndefined
    /\ delays' = <<>>
    /\ hist' = <<>>
    /\ IF ~checkOnline
       THEN /\ pc' = "done"                      \* lines 90-92
            /\ i' = 0
            /\ attempts' = 0
            /\ onlineWaits' = 0
            /\ retryResult' = NoResult
            /\ outcome' = Thrown(OfflineError)
            /\ UNCHANGED listeners
       ELSE LoopFrom(0, 0, 0, listeners, JsUndefined)
    /\ UNCHANGED online
    /\ UNCHANGED <<authVars, galleryVars>>

\* GoOnline, were line 29 missing.
GoOnlineKeepListener ==
    /\ ~online
    /\ online' = TRUE
    /\ IF pc = "waitOnline"
       THEN /\ pc' = "inOp"
            /\ attempts' = attempts + 1
            /\ UNCHANGED listeners
       ELSE UNCHANGED <<listeners, pc, attempts>>
    /\ UNCHANGED <<caller, errorMessage, onlineAtCall, i, lastError, delays,
                   onlineWaits, hist, retryResult, outcome>>
    /\ UNCHANGED <<authVars, galleryVars>>

\* lines 28-31 and 36: the browser goes online and fires 'online'; a waiting
\* withRetry's handler removes itself and resolves, and the loop body goes on
\* to operation() in the same turn.
GoOnline ==
    /\ ~online
    /\ online' = TRUE
    /\ IF pc = "waitOnline"
       THEN /\ listeners' = listeners - 1        \* line 29
            /\ pc' = "inOp"                      \* lines 30, 36
            /\ attempts' = attempts + 1
       ELSE UNCHANGED <<listeners, pc, attempts>>
    /\ UNCHANGED <<caller, errorMessage, onlineAtCall, i, lastError, delays,
                   onlineWaits, hist, retryResult, outcome>>
    /\ UNCHANGED <<authVars, galleryVars>>

\* The browser goes offline.
GoOffline ==
    /\ online
    /\ online' = FALSE
    /\ UNCHANGED <<listeners, caller, errorMessage, onlineAtCall, pc, i,
                   lastError, attempts, delays, onlineWaits, hist,
                   retryResult, outcome>>
    /\ UNCHANGED <<authVars, galleryVars>>

\* lines 37-43 (and 46): operation() rejects with e
OpReject(e) ==
    /\ pc = "inOp"
    /\ hist' = Append(hist, Rejected(e))
    /\ lastError' = NextLastError(lastError, e)
    /\ IF WaitsAfter(i)
       THEN /\ delays' = Append(delays, Delay(i))
            /\ pc' = "backoff"
            /\ UNCHANGED <<i, attempts, listeners, onlineWaits, retryResult,
                           outcome>>
       ELSE /\ delays' = delays
            /\ LoopFrom(i + 1, attempts, onlineWaits, listeners, lastError')
    /\ UNCHANGED <<online, caller, errorMessage, onlineAtCall>>
    /\ UNCHANGED <<authVars, galleryVars>>

\* TimerFire, were the timer's resolve lost: the loop stays in its wait.
TimerFireLost ==
    /\ pc = "backoff"
    /\ UNCHANGED <<i, pc, attempts, listeners, onlineWaits, retryResult,
                   outcome>>
    /\ UNCHANGED <<online, caller, errorMessage, onlineAtCall, lastError,
                   delays, hist>>
    /\ UNCHANGED <<authVars, galleryVars>>

\* line 41 resolves: the backoff timer fires and the loop goes round
TimerFire ==
    /\ pc = "backoff"
    /\ LoopFrom(i + 1, attempts, onlineWaits, listeners, lastError)
    /\ UNCHANGED <<online, caller, errorMessage, onlineAtCall, lastError,
                   delays, hist>>
    /\ UNCHANGED <<authVars, galleryVars>>

\* OpResolve, were a result that carries an error retried like a rejection.
OpResolveRetriesOnError(v) ==
    /\ pc = "inOp"
    /\ hist' = Append(hist, Resolved(v))
    /\ IF caller = "supabaseOperation" /\ Truthy(v.error)
          /\ i + 1 < maxRetries
       THEN LoopFrom(i + 1, attempts, onlineWaits, listeners, lastError)
       ELSE /\ pc' = "done"
            /\ retryResult' = Returned(v)
            /\ outcome' = CallerOnReturn(v)
            /\ UNCHANGED <<listeners, i, attempts, onlineWaits>>
    /\ UNCHANGED <<online, caller, errorMessage, onlineAtCall, lastError,
                   delays>>
    /\ UNCHANGED <<authVars, galleryVars>>

\* line 36 returns: operation() resolves with v
OpResolve(v) ==
    /\ pc = "inOp"
    /\ hist' = Append(hist, Resolved(v))
    /\ pc' = "done"
    /\ retryResult' = Returned(v)
    /\ outcome' = CallerOnReturn(v)
    /\ UNCHANGED <<online, listeners, caller, errorMessage, onlineAtCall, i,
                   lastError, attempts, delays, onlineWaits>>
    /\ UNCHANGED <<authVars, galleryVars>>

---------------------------------------------------------------------------
(* contexts/AuthContext.tsx *)

Users  == {"u1", "u2"}
Tokens == {"t1", "t2"}

\* A Session carries its user; tokens tell a refreshed session from the old.
Sessions  == [user : Users, token : Tokens]
NoSession == [user |-> "null", token |-> "null"]
NoUser    == "null"

\* session?.user ?? null
UserOf(s) == IF s = NoSession THEN NoUser ELSE s.user

\* The other token: what a refresh replaces the session's token by.
Refreshed(s) == [s EXCEPT !.token = IF @ = "t1" THEN "t2" ELSE "t1"]

\* lines 30-34: the then-callback of getSession()
OnGetSession(s) ==
    /\ session' = s
    /\ user' = UserOf(s)
    /\ loading' = FALSE

\* OnAuthStateChange, were line 40 missing.
OnAuthStateChangeKeepLoading(s) ==
    /\ session' = s
    /\ user' = UserOf(s)
    /\ loading' = loading

\* lines 37-41: the onAuthStateChange callback
OnAuthStateChange(s) ==
    /\ session' = s
    /\ user' = UserOf(s)
    /\ loading' = FALSE

\* The auth client notifies the subscription of lines 37-43, if it is held.
Notify(kind, s) ==
    IF mounted = "yes"
    THEN /\ OnAuthStateChange(s)
         /\ lastEvent' = s
         /\ lastStep' = kind
    ELSE UNCHANGED <<session, user, loading, lastEvent, lastStep>>

\* lines 28-44: the effect runs: getSession() is called and the subscription made
Mount ==
    /\ mounted = "no"
    /\ mounted' = "yes"
    /\ getSession' = [st |-> "pending", value |-> NoSession]
    /\ lastStep' = "mount"
    /\ UNCHANGED <<user, session, loading, clientSession, signOutPc,
                   signOutResult, signedInSince, lastEvent>>
    /\ UNCHANGED <<retryVars, galleryVars>>

\* line 30: getSession() reads the session the client holds ...
GetSessionRead ==
    /\ getSession.st = "pending"
    /\ getSession' = [st |-> "read", value |-> clientSession]
    /\ UNCHANGED <<mounted, user, session, loading, clientSession, signOutPc,
                   signOutResult, signedInSince, lastStep, lastEvent>>
    /\ UNCHANGED <<retryVars, galleryVars>>

\* ... and lines 30-34: its promise resolves with what it read. The cleanup
\* of line 43 does not cancel it: the callback runs after an unmount too.
GetSessionResolve ==
    /\ getSession.st = "read"
    /\ getSession' = [getSession EXCEPT !.st = "resolved"]
    /\ OnGetSession(getSession.value)
    /\ lastStep' = "getSession"
    /\ UNCHANGED <<mounted, clientSession, signOutPc, signOutResult,
                   signedInSince, lastEvent>>
    /\ UNCHANGED <<retryVars, galleryVars>>

\* lines 49-52: a signIn / signUp succeeds (also a session found in the URL,
\* supabase.ts line 53): the client holds s and fires SIGNED_IN
SignedIn(s) ==
    /\ clientSession' = s
    /\ signedInSince' = TRUE
    /\ Notify("SIGNED_IN", s)
    /\ UNCHANGED <<mounted, getSession, signOutPc, signOutResult>>
    /\ UNCHANGED <<retryVars, galleryVars>>

\* supabase.ts line 54 (autoRefreshToken): the client refreshes the session
\* it holds and fires TOKEN_REFRESHED
TokenRefreshed ==
    /\ clientSession # NoSession
    /\ clientSession' = Refreshed(clientSession)
    /\ Notify("TOKEN_REFRESHED", clientSession')
    /\ UNCHANGED <<mounted, getSession, signOutPc, signOutResult,
                   signedInSince>>
    /\ UNCHANGED <<retryVars, galleryVars>>

\* The session ends outside this provider (expiry, another tab): SIGNED_OUT
SignedOut ==
    /\ clientSession # NoSession
    /\ clientSession' = NoSession
    /\ Notify("SIGNED_OUT", NoSession)
    /\ UNCHANGED <<mounted, getSession, signOutPc, signOutResult,
                   signedInSince>>
    /\ UNCHANGED <<retryVars, galleryVars>>

\* lines 53-55: signOut() is called (by a child, rendered once loading is
\* false) and awaits supabase.auth.signOut()
SignOutCall ==
    /\ mounted = "yes"
    /\ ~loading
    /\ signOutPc = "idle"
    /\ signOutPc' = "awaiting"
    /\ lastStep' = "signOutCall"
    /\ UNCHANGED <<mounted, user, session, loading, getSession, clientSession,
                   signOutResult, signedInSince, lastEvent>>
    /\ UNCHANGED <<retryVars, galleryVars>>

\* lines 58-59 and 63-64: setUser(null); setSession(null)
ClearLocal ==
    /\ user' = NoUser
    /\ session' = NoSession

\* lines 55-59: the remote sign-out succeeded: the client drops its session,
\* fires SIGNED_OUT, and signOut clears the local state
SignOutOk ==
    /\ signOutPc = "awaiting"
    /\ signOutPc' = "idle"
    /\ clientSession' = NoSession
    /\ lastEvent' = IF mounted = "yes" THEN NoSession ELSE lastEvent
    /\ loading' = FALSE
    /\ ClearLocal
    /\ signOutResult' = "ok"
    /\ signedInSince' = FALSE
    /\ lastStep' = "signOut"
    /\ UNCHANGED <<mounted, getSession>>
    /\ UNCHANGED <<retryVars, galleryVars>>

\* lines 55-56 and 60-65: the remote sign-out returned an error or threw; the
\* client still holds its session, and signOut clears the local state
SignOutFail(result) ==
    /\ signOutPc = "awaiting"
    /\ signOutPc' = "idle"
    /\ ClearLocal
    /\ signOutResult' = result
    /\ signedInSince' = FALSE
    /\ lastStep' = "signOut"
    /\ UNCHANGED <<mounted, loading, getSession, clientSession, lastEvent>>
    /\ UNCHANGED <<retryVars, galleryVars>>

\* line 43: the effect's cleanup releases the subscription
Unmount ==
    /\ mounted = "yes"
    /\ mounted' = "gone"
    /\ lastStep' = "unmount"
    /\ UNCHANGED <<user, session, loading, getSession, clientSession,
                   signOutPc, signOutResult, signedInSince, lastEvent>>
    /\ UNCHANGED <<retryVars, galleryVars>>

---------------------------------------------------------------------------
(* pages/Gallery.tsx *)

MaxPhotos == 3
MaxOps    == 1

\* Concurrent invocations of a handler: nothing serializes them.
Slots == 1..MaxOps

NoFolder == "null"
NoMedia  == 0

\* The folders of the signed-in user u1, and one of another user.
OwnFolderIds == {"f1", "f2"}
InitialFolders ==
    {[id |-> f, user_id |-> "u1"] : f \in OwnFolderIds}
        \cup {[id |-> "f3", user_id |-> "u2"]}

\* A row of 'photos' (lines 130-137); its url is its storage key.
PhotoRow(k, f) ==
    [id |-> k, url |-> k, folder_id |-> f, uploaded_by |-> "u1"]

\* The backend at the start: photos 1..n1 are in f1, the next n2 in f2 and
\* the rest in no folder.
InitialFolderOf(k, n1, n2) ==
    IF k <= n1 THEN "f1" ELSE IF k <= n1 + n2 THEN "f2" ELSE NoFolder

\* An invocation of deleteFolder: where it is, its folderId argument, whether
\* the render it was made in showed that folder (line 197), and the ids of
\* the photos rows its first delete removed.
IdleSlot ==
    [pc |-> "idle", folderId |-> NoFolder, shown |-> FALSE, removed |-> {}]

\* A filter of a query: .eq(col, val) and .filter(col, 'is', null)
Eq(col, val) == [col |-> col, op |-> "eq", val |-> val]
IsNull(col)  == [col |-> col, op |-> "is", val |-> "null"]

\* `if (currentFolder)` (line 59): null and the empty string are falsy
TruthyFolder(folder) == folder # NoFolder /\ folder # ""

\* FetchMediaQuery, were the folder always compared with eq.
FetchMediaQueryAlwaysEq(uid, folder) ==
    [table |-> "photos", verb |-> "select",
     filters |-> {Eq("uploaded_by", uid), Eq("folder_id", folder)}]

\* lines 53-63: the query fetchMedia builds from its user and currentFolder
FetchMediaQuery(uid, folder) ==
    [table |-> "photos", verb |-> "select",
     filters |-> {Eq("uploaded_by", uid),
                  IF TruthyFolder(folder) THEN Eq("folder_id", folder)
                  ELSE IsNull("folder_id")}]

\* lines 80-84: the query fetchFolders builds
FetchFoldersQuery(uid) ==
    [table |-> "folders", verb |-> "select",
     filters |-> {Eq("user_id", uid)}]

\* lines 182-185: deleteFolder's delete of the folder's photos rows
DeletePhotosQuery(folderId) ==
    [table |-> "photos", verb |-> "delete",
     filters |-> {Eq("folder_id", folderId)}]

\* lines 189-192: deleteFolder's delete of the folder row
DeleteFolderQuery(folderId) ==
    [table |-> "folders", verb |-> "delete",
     filters |-> {Eq("id", folderId)}]

\* lines 219-222: deleteMedia's delete of the item's row
DeleteMediaQuery(itemId) ==
    [table |-> "photos", verb |-> "delete",
     filters |-> {Eq("id", itemId)}]

\* The backend's reading of the filters: `is null` holds of a null column,
\* and eq never holds of one.
Matches(q, r) ==
    \A f \in q.filters :
        /\ r[f.col] = f.val
        /\ (f.op = "eq" /\ f.col = "folder_id" => f.val # NoFolder)

\* The rows a query selects or deletes.
Rows(q) ==
    {r \in (IF q.table = "photos" THEN photosTable ELSE foldersTable) :
        Matches(q, r)}

\* lines 182-185: the rows `delete().eq('folder_id', folderId)` matches
ChildRows(folderId) == Rows(DeletePhotosQuery(folderId))

\* lines 189-192: the rows `delete().eq('id', folderId)` matches
FolderRows(folderId) == Rows(DeleteFolderQuery(folderId))

\* lines 80-84: the rows fetchFolders' query selects
OwnFolders == Rows(FetchFoldersQuery(user))

\* lines 453 and 606: setCurrentFolder(folder.id) / setCurrentFolder(null)
SelectFolder(f) ==
    /\ f \in folders \cup {NoFolder}
    /\ currentFolder # f
    /\ currentFolder' = f
    /\ UNCHANGED <<photosTable, foldersTable, folders, fetchingFolders, df,
                   dfResult>>
    /\ UNCHANGED <<retryVars, authVars>>
    /\ UNCHANGED viewVars

\* lines 76-87: a fetchFolders() in flight resolves and setFolders(data) runs
FetchFoldersDone ==
    /\ fetchingFolders
    /\ folders' = {r.id : r \in OwnFolders}
    /\ fetchingFolders' \in BOOLEAN      \* another one may still be in flight
    /\ UNCHANGED <<photosTable, foldersTable, currentFolder, df, dfResult>>
    /\ UNCHANGED <<retryVars, authVars>>
    /\ UNCHANGED viewVars

\* lines 88-91: a fetchFolders() in flight fails and throws
FetchFoldersFail ==
    /\ fetchingFolders
    /\ fetchingFolders' \in BOOLEAN
    /\ UNCHANGED <<photosTable, foldersTable, folders, currentFolder, df,
                   dfResult>>
    /\ UNCHANGED <<retryVars, authVars>>
    /\ UNCHANGED viewVars

\* lines 177-185: deleteFolder(folderId) is called from the trash button of a
\* folder shown, the user confirms, and the delete of the folder's photos rows
\* is issued. The handler keeps the currentFolder of the render it was made
\* in: shown is its `currentFolder === folderId` of line 197.
DeleteFolderCall(k, folderId) ==
    /\ user # NoUser
    /\ df[k].pc = "idle"
    /\ folderId \in folders
    /\ df' = [df EXCEPT ![k] =
                [pc |-> "awaitPhotos", folderId |-> folderId,
                 shown |-> (currentFolder = folderId), removed |-> {}]]
    /\ UNCHANGED <<photosTable, foldersTable, folders, currentFolder,
                   fetchingFolders, dfResult>>
    /\ UNCHANGED <<retryVars, authVars>>
    /\ UNCHANGED viewVars

\* lines 182-192: the photos delete succeeded; the folder delete is issued
DeletePhotosOk(k) ==
    /\ df[k].pc = "awaitPhotos"
    /\ photosTable' = photosTable \ ChildRows(df[k].folderId)
    /\ df' = [df EXCEPT ![k].pc = "awaitFolder",
                        ![k].removed = {r.id : r \in ChildRows(df[k].folderId)}]
    /\ UNCHANGED <<foldersTable, folders, currentFolder, fetchingFolders,
                   dfResult>>
    /\ UNCHANGED <<retryVars, authVars>>
    /\ UNCHANGED viewVars

\* DeletePhotosErr, were line 187 missing.
DeletePhotosErrIgnored(k, gone) ==
    /\ df[k].pc = "awaitPhotos"
    /\ gone \subseteq ChildRows(df[k].folderId)
    /\ photosTable' = photosTable \ gone
    /\ df' = [df EXCEPT ![k].pc = "awaitFolder",
                        ![k].removed = {r.id : r \in gone}]
    /\ UNCHANGED <<foldersTable, folders, currentFolder, fetchingFolders,
                   dfResult>>
    /\ UNCHANGED <<retryVars, authVars>>
    /\ UNCHANGED viewVars

\* lines 182-187 and 200-203: the photos delete reported an error, having
\* removed the rows in gone (none, or some); `throw photosError`, alert
DeletePhotosErr(k, gone) ==
    /\ df[k].pc = "awaitPhotos"
    /\ gone \subseteq ChildRows(df[k].folderId)
    /\ photosTable' = photosTable \ gone
    /\ df' = [df EXCEPT ![k] = IdleSlot]
    /\ dfResult' = "photosError"
    /\ UNCHANGED <<foldersTable, folders, currentFolder, fetchingFolders>>
    /\ UNCHANGED <<retryVars, authVars>>
    /\ UNCHANGED viewVars

\* lines 189-199: the folder delete succeeded; fetchFolders() is started and
\* the view leaves the folder if the handler's render showed it
DeleteFolderRowOk(k) ==
    /\ df[k].pc = "awaitFolder"
    /\ foldersTable' = foldersTable \ FolderRows(df[k].folderId)
    /\ fetchingFolders' = TRUE
    /\ currentFolder' = IF df[k].shown THEN NoFolder ELSE currentFolder
    /\ df' = [df EXCEPT ![k] = IdleSlot]
    /\ dfResult' = "ok"
    /\ UNCHANGED <<photosTable, folders>>
    /\ UNCHANGED <<retryVars, authVars>>
    /\ UNCHANGED viewVars

\* lines 189-194 and 200-203: the folder delete reported an error; alert
DeleteFolderRowErr(k) ==
    /\ df[k].pc = "awaitFolder"
    /\ df' = [df EXCEPT ![k] = IdleSlot]
    /\ dfResult' = "folderError"
    /\ UNCHANGED <<photosTable, foldersTable, folders, currentFolder,
                   fetchingFolders>>
    /\ UNCHANGED <<retryVars, authVars>>
    /\ UNCHANGED viewVars

---------------------------------------------------------------------------
(* pages/Gallery.tsx: the view, the load effect and the media operations *)

MaxMedia == 2
MaxLoads == 2

\* The ids (and storage keys) of the media rows of this part.
MediaIds == 1..MaxMedia

\* loadData runs that may be in flight together: nothing cancels a run.
LoadSlots == 1..MaxLoads

\* No alert() dialog is open.
NoAlert == [text |-> "none", mb |-> 0]

\* alert(text)
Alert(text) == [text |-> text, mb |-> 0]

\* lines 276, 296 and 311: the gallery itself is rendered, and not the
\* log-in prompt, the spinner or the error panel
Rendered == user # NoUser /\ ~isLoading /\ ~error

\* What the page shows of its data: the five pieces of view state an
\* operation may change. Each invocation record keeps, as history, the view
\* of the moment it was started (before).
View == <<media, folders, currentFolder, selectedMedia, isMobileMenuOpen>>

\* A loadData run: the user and currentFolder of the render it was started
\* in, how its two fetches stand, and whether loadData itself has finished.
IdleLoad ==
    [st |-> "idle", uid |-> NoUser, folder |-> NoFolder,
     fetchMedia |-> "none", fetchFolders |-> "none"]

\* lines 65-69: what setMedia(data) shows for a query's result
MediaOf(q) == {r.id : r \in Rows(q)}

\* lines 79-87: what setFolders(data) shows for a query's result
FoldersOf(q) == {r.id : r \in Rows(q)}

\* The first free slot for a loadData run.
FreeLoad == CHOOSE k \in LoadSlots :
                /\ ld[k].st = "idle"
                /\ \A j \in LoadSlots : ld[j].st = "idle" => k <= j

\* lines 453 and 606, as rendered: a folder is opened from the grid shown at
\* the root (line 437), and left by the button shown inside it (line 601)
OpenFolder(f) ==
    /\ Rendered
    /\ (f = NoFolder) = TruthyFolder(currentFolder)
    /\ SelectFolder(f)

\* lines 29-48: the effect runs when user or currentFolder has changed (the
\* user object is the session's: a new session brings a new one). Without a
\* user it navigates to the login view; with one it starts loadData, which
\* sets the flags and calls fetchMedia() and fetchFolders() (lines 36-39).
EffectRun ==
    /\ deps # <<session, currentFolder>>
    /\ deps' = <<session, currentFolder>>
    /\ IF user = NoUser
       THEN /\ navigated' = TRUE                               \* line 31
            /\ UNCHANGED <<isLoading, error, ld>>
       ELSE /\ \E k \in LoadSlots : ld[k].st = "idle"
            /\ isLoading' = TRUE                               \* line 36
            /\ error' = FALSE                                  \* line 37
            /\ ld' = [ld EXCEPT ![FreeLoad] =
                        [st |-> "running", uid |-> user,
                         folder |-> currentFolder,
                         fetchMedia |-> "pending",
                         fetchFolders |-> "pending"]]          \* line 39
            /\ UNCHANGED navigated
    /\ UNCHANGED <<storage, media, selectedMedia, isMobileMenuOpen,
                   isUploading, uploadProgress, isDeletingMedia, fm, up, cf,
                   dm, alert>>
    /\ UNCHANGED <<photosTable, foldersTable, folders, currentFolder,
                   fetchingFolders, df, dfResult>>
    /\ UNCHANGED <<retryVars, authVars>>

\* The run once one of its fetches has ended as res ("ok" or "failed"):
\* Promise.all settles at the first failure or when both have resolved, and
\* loadData then sets the flags (lines 40-44); the slot is free once both
\* fetches have ended.
AfterFetch(run, which, res) ==
    LET r1 == [run EXCEPT ![which] = res]
        settles == /\ run.st = "running"
                   /\ \/ res = "failed"
                      \/ r1.fetchMedia = "ok" /\ r1.fetchFolders = "ok"
        ended == r1.fetchMedia # "pending" /\ r1.fetchFolders # "pending"
    IN  [run   |-> IF ended THEN IdleLoad
                   ELSE IF settles THEN [r1 EXCEPT !.st = "settled"] ELSE r1,
         settles |-> settles,
         failed  |-> settles /\ res = "failed"]

\* lines 40-44: the flags after a fetch of a run has ended
LoadFlags(a) ==
    /\ isLoading' = IF a.settles THEN FALSE ELSE isLoading     \* line 43
    /\ error' = IF a.failed THEN TRUE ELSE error               \* line 41

\* lines 50-69 in a loadData run: the run's fetchMedia() resolves
LoadMediaOk(k) ==
    /\ ld[k].fetchMedia = "pending"
    /\ media' = MediaOf(FetchMediaQuery(ld[k].uid, ld[k].folder))
    /\ LET a == AfterFetch(ld[k], "fetchMedia", "ok") IN
          /\ ld' = [ld EXCEPT ![k] = a.run]
          /\ LoadFlags(a)
    /\ UNCHANGED <<storage, selectedMedia, isMobileMenuOpen, isUploading,
                   uploadProgress, isDeletingMedia, navigated, deps, fm, up,
                   cf, dm, alert>>
    /\ UNCHANGED <<photosTable, foldersTable, folders, currentFolder,
                   fetchingFolders, df, dfResult>>
    /\ UNCHANGED <<retryVars, authVars>>

\* lines 70-73 in a loadData run: the run's fetchMedia() throws
LoadMediaFail(k) ==
    /\ ld[k].fetchMedia = "pending"
    /\ LET a == AfterFetch(ld[k], "fetchMedia", "failed") IN
          /\ ld' = [ld EXCEPT ![k] = a.run]
          /\ LoadFlags(a)
    /\ UNCHANGED <<storage, media, selectedMedia, isMobileMenuOpen,
                   isUploading, uploadProgress, isDeletingMedia, navigated,
                   deps, fm, up, cf, dm, alert>>
    /\ UNCHANGED <<photosTable, foldersTable, folders, currentFolder,
                   fetchingFolders, df, dfResult>>
    /\ UNCHANGED <<retryVars, authVars>>

\* lines 76-87 in a loadData run: the run's fetchFolders() resolves
LoadFoldersOk(k) ==
    /\ ld[k].fetchFolders = "pending"
    /\ folders' = FoldersOf(FetchFoldersQuery(ld[k].uid))
    /\ LET a == AfterFetch(ld[k], "fetchFolders", "ok") IN
          /\ ld' = [ld EXCEPT ![k] = a.run]
          /\ LoadFlags(a)
    /\ UNCHANGED <<storage, media, selectedMedia, isMobileMenuOpen,
                   isUploading, uploadProgress, isDeletingMedia, navigated,
                   deps, fm, up, cf, dm, alert>>
    /\ UNCHANGED <<photosTable, foldersTable, currentFolder, fetchingFolders,
                   df, dfResult>>
    /\ UNCHANGED <<retryVars, authVars>>

\* lines 88-91 in a loadData run: the run's fetchFolders() throws
LoadFoldersFail(k) ==
    /\ ld[k].fetchFolders = "pending"
    /\ LET a == AfterFetch(ld[k], "fetchFolders", "failed") IN
          /\ ld' = [ld EXCEPT ![k] = a.run]
          /\ LoadFlags(a)
    /\ UNCHANGED <<storage, media, selectedMedia, isMobileMenuOpen,
                   isUploading, uploadProgress, isDeletingMedia, navigated,
                   deps, fm, up, cf, dm, alert>>
    /\ UNCHANGED <<photosTable, foldersTable, folders, currentFolder,
                   fetchingFolders, df, dfResult>>
    /\ UNCHANGED <<retryVars, authVars>>

\* lines 502, 558 and 564: an item of the grid is opened in the modal, or the
\* modal (which covers the grid) is closed
SelectMedia(m) ==
    /\ Rendered
    /\ m \in media \cup {NoMedia}
    /\ (m = NoMedia) = (selectedMedia # NoMedia)
    /\ selectedMedia' = m
    /\ UNCHANGED <<storage, media, isMobileMenuOpen, isUploading,
                   uploadProgress, isDeletingMedia, isLoading, error,
                   navigated, deps, ld, fm, up, cf, dm, alert>>
    /\ UNCHANGED <<photosTable, foldersTable, folders, currentFolder,
                   fetchingFolders, df, dfResult>>
    /\ UNCHANGED <<retryVars, authVars>>

\* line 344: the mobile menu button
ToggleMenu ==
    /\ Rendered
    /\ isMobileMenuOpen' = ~isMobileMenuOpen
    /\ UNCHANGED <<storage, media, selectedMedia, isUploading, uploadProgress,
                   isDeletingMedia, isLoading, error, navigated, deps, ld, fm,
                   up, cf, dm, alert>>
    /\ UNCHANGED <<photosTable, foldersTable, folders, currentFolder,
                   fetchingFolders, df, dfResult>>
    /\ UNCHANGED <<retryVars, authVars>>

\* lines 50-69: a fetchMedia() nobody awaits (line 141) resolves
FetchMediaDone(f) ==
    /\ f \in fm
    /\ fm' = fm \ {f}
    /\ media' = MediaOf(FetchMediaQuery(f.uid, f.folder))
    /\ UNCHANGED <<storage, selectedMedia, isMobileMenuOpen, isUploading,
                   uploadProgress, isDeletingMedia, isLoading, error,
                   navigated, deps, ld, up, cf, dm, alert>>
    /\ UNCHANGED <<photosTable, foldersTable, folders, currentFolder,
                   fetchingFolders, df, dfResult>>
    /\ UNCHANGED <<retryVars, authVars>>

\* lines 70-73: a fetchMedia() nobody awaits throws; nothing catches it
FetchMediaFail(f) ==
    /\ f \in fm
    /\ fm' = fm \ {f}
    /\ UNCHANGED <<storage, media, selectedMedia, isMobileMenuOpen,
                   isUploading, uploadProgress, isDeletingMedia, isLoading,
                   error, navigated, deps, ld, up, cf, dm, alert>>
    /\ UNCHANGED <<photosTable, foldersTable, folders, currentFolder,
                   fetchingFolders, df, dfResult>>
    /\ UNCHANGED <<retryVars, authVars>>

\* DeleteMediaCall, were isDeletingMedia not tested in line 208.
DeleteMediaCallUnguarded(item) ==
    /\ Rendered
    /\ item \in (media \cup {selectedMedia}) \ {NoMedia}
    /\ user # NoUser
    /\ isDeletingMedia' = TRUE
    /\ dm' = dm \cup {[pc |-> "awaitStorage", item |-> item, uid |-> user,
                       folder |-> currentFolder, before |-> View]}
    /\ UNCHANGED <<storage, media, selectedMedia, isMobileMenuOpen,
                   isUploading, uploadProgress, isLoading, error, navigated,
                   deps, ld, fm, up, cf, alert>>
    /\ UNCHANGED <<photosTable, foldersTable, folders, currentFolder,
                   fetchingFolders, df, dfResult>>
    /\ UNCHANGED <<retryVars, authVars>>

\* lines 206-215: deleteMedia(item) is called from the trash button of an item
\* of the grid (530) or of the modal (591), passes the guard of line 208, the
\* user confirms, and the removal of the item's object is issued. The handler
\* keeps the user and currentFolder of the render it was made in.
DeleteMediaCall(item) ==
    /\ Rendered
    /\ item \in (media \cup {selectedMedia}) \ {NoMedia}
    /\ user # NoUser /\ ~isDeletingMedia                       \* line 208
    /\ isDeletingMedia' = TRUE                                 \* line 211
    /\ dm' = dm \cup {[pc |-> "awaitStorage", item |-> item, uid |-> user,
                       folder |-> currentFolder, before |-> View]}
    /\ UNCHANGED <<storage, media, selectedMedia, isMobileMenuOpen,
                   isUploading, uploadProgress, isLoading, error, navigated,
                   deps, ld, fm, up, cf, alert>>
    /\ UNCHANGED <<photosTable, foldersTable, folders, currentFolder,
                   fetchingFolders, df, dfResult>>
    /\ UNCHANGED <<retryVars, authVars>>

\* DeleteMediaStorageOk, were the object left in storage.
DeleteMediaStorageOkKeepsObject(d) ==
    /\ d \in dm
    /\ d.pc = "awaitStorage"
    /\ storage' = storage
    /\ dm' = (dm \ {d}) \cup {[d EXCEPT !.pc = "awaitRow"]}
    /\ UNCHANGED <<media, selectedMedia, isMobileMenuOpen, isUploading,
                   uploadProgress, isDeletingMedia, isLoading, error,
                   navigated, deps, ld, fm, up, cf, alert>>
    /\ UNCHANGED <<photosTable, foldersTable, folders, currentFolder,
                   fetchingFolders, df, dfResult>>
    /\ UNCHANGED <<retryVars, authVars>>

\* lines 213-222: the removal succeeded: the object is gone, and the delete
\* of the item's row is issued
DeleteMediaStorageOk(d) ==
    /\ d \in dm
    /\ d.pc = "awaitStorage"
    /\ storage' = storage \ {d.item}
    /\ dm' = (dm \ {d}) \cup {[d EXCEPT !.pc = "awaitRow"]}
    /\ UNCHANGED <<media, selectedMedia, isMobileMenuOpen, isUploading,
                   uploadProgress, isDeletingMedia, isLoading, error,
                   navigated, deps, ld, fm, up, cf, alert>>
    /\ UNCHANGED <<photosTable, foldersTable, folders, currentFolder,
                   fetchingFolders, df, dfResult>>
    /\ UNCHANGED <<retryVars, authVars>>

\* lines 228-230: the catch block of deleteMedia: the alert opens, and the
\* handler goes on when it is closed
DeleteMediaFailed(d) ==
    /\ dm' = (dm \ {d}) \cup {[d EXCEPT !.pc = "alert"]}
    /\ alert' = Alert("Error deleting media")                  \* line 230

\* DeleteMediaStorageErr, were line 217 missing.
DeleteMediaStorageErrIgnored(d) ==
    /\ d \in dm
    /\ d.pc = "awaitStorage"
    /\ dm' = (dm \ {d}) \cup {[d EXCEPT !.pc = "awaitRow"]}
    /\ UNCHANGED <<storage, media, selectedMedia, isMobileMenuOpen,
                   isUploading, uploadProgress, isDeletingMedia, isLoading,
                   error, navigated, deps, ld, fm, up, cf, alert>>
    /\ UNCHANGED <<photosTable, foldersTable, folders, currentFolder,
                   fetchingFolders, df, dfResult>>
    /\ UNCHANGED <<retryVars, authVars>>

\* lines 213-217 and 228-230: the removal reported an error
DeleteMediaStorageErr(d) ==
    /\ d \in dm
    /\ d.pc = "awaitStorage"
    /\ DeleteMediaFailed(d)
    /\ UNCHANGED <<storage, media, selectedMedia, isMobileMenuOpen,
                   isUploading, uploadProgress, isDeletingMedia, isLoading,
                   error, navigated, deps, ld, fm, up, cf>>
    /\ UNCHANGED <<photosTable, foldersTable, folders, currentFolder,
                   fetchingFolders, df, dfResult>>
    /\ UNCHANGED <<retryVars, authVars>>

\* lines 219-227: the row delete succeeded: the modal is closed and
\* fetchMedia() is awaited
DeleteMediaRowOk(d) ==
    /\ d \in dm
    /\ d.pc = "awaitRow"
    /\ photosTable' = photosTable \ Rows(DeleteMediaQuery(d.item))
    /\ selectedMedia' = NoMedia                                \* line 226
    /\ dm' = (dm \ {d}) \cup {[d EXCEPT !.pc = "awaitFetch"]}   \* line 227
    /\ UNCHANGED <<storage, media, isMobileMenuOpen, isUploading,
                   uploadProgress, isDeletingMedia, isLoading, error,
                   navigated, deps, ld, fm, up, cf, alert>>
    /\ UNCHANGED <<foldersTable, folders, currentFolder, fetchingFolders, df,
                   dfResult>>
    /\ UNCHANGED <<retryVars, authVars>>

\* lines 219-224 and 228-230: the row delete reported an error
DeleteMediaRowErr(d) ==
    /\ d \in dm
    /\ d.pc = "awaitRow"
    /\ DeleteMediaFailed(d)
    /\ UNCHANGED <<storage, media, selectedMedia, isMobileMenuOpen,
                   isUploading, uploadProgress, isDeletingMedia, isLoading,
                   error, navigated, deps, ld, fm, up, cf>>
    /\ UNCHANGED <<photosTable, foldersTable, folders, currentFolder,
                   fetchingFolders, df, dfResult>>
    /\ UNCHANGED <<retryVars, authVars>>

\* lines 227 and 231-233: the awaited fetchMedia() resolved
DeleteMediaFetchOk(d) ==
    /\ d \in dm
    /\ d.pc = "awaitFetch"
    /\ media' = MediaOf(FetchMediaQuery(d.uid, d.folder))
    /\ dm' = dm \ {d}
    /\ isDeletingMedia' = FALSE                                \* line 232
    /\ UNCHANGED <<storage, selectedMedia, isMobileMenuOpen, isUploading,
                   uploadProgress, isLoading, error, navigated, deps, ld, fm,
                   up, cf, alert>>
    /\ UNCHANGED <<photosTable, foldersTable, folders, currentFolder,
                   fetchingFolders, df, dfResult>>
    /\ UNCHANGED <<retryVars, authVars>>

\* lines 227-230: the awaited fetchMedia() threw
DeleteMediaFetchErr(d) ==
    /\ d \in dm
    /\ d.pc = "awaitFetch"
    /\ DeleteMediaFailed(d)
    /\ UNCHANGED <<storage, media, selectedMedia, isMobileMenuOpen,
                   isUploading, uploadProgress, isDeletingMedia, isLoading,
                   error, navigated, deps, ld, fm, up, cf>>
    /\ UNCHANGED <<photosTable, foldersTable, folders, currentFolder,
                   fetchingFolders, df, dfResult>>
    /\ UNCHANGED <<retryVars, authVars>>

\* lines 230-233: the alert is closed, and the finally block runs
CloseDeleteMediaAlert(d) ==
    /\ d \in dm
    /\ d.pc = "alert"
    /\ alert' = NoAlert
    /\ dm' = dm \ {d}
    /\ isDeletingMedia' = FALSE                                \* line 232
    /\ UNCHANGED <<storage, media, selectedMedia, isMobileMenuOpen,
                   isUploading, uploadProgress, isLoading, error, navigated,
                   deps, ld, fm, up, cf>>
    /\ UNCHANGED <<photosTable, foldersTable, folders, currentFolder,
                   fetchingFolders, df, dfResult>>
    /\ UNCHANGED <<retryVars, authVars>>

\* The files the user may pick: their type and size in bytes.
VideoTypes == {"video/mp4"}
ImageTypes == {"image/png"}
FileSizes  == {5 * 1024 * 1024, 5 * 1024 * 1024 + 1,
               50 * 1024 * 1024, 50 * 1024 * 1024 + 1}
Files == [type : VideoTypes \cup ImageTypes, size : FileSizes]

\* line 103: file.type.startsWith('video/')
IsVideo(file) == file.type \in VideoTypes

\* MaxSize, were the two limits exchanged.
MaxSizeSwapped(file) ==
    IF IsVideo(file) THEN 5 * 1024 * 1024 ELSE 50 * 1024 * 1024

\* line 104
MaxSize(file) == IF IsVideo(file) THEN 50 * 1024 * 1024 ELSE 5 * 1024 * 1024

\* line 106: the size gate
TooLarge(file) == file.size > MaxSize(file)

\* line 107: `File too large. Maximum size is ${maxSize / (1024 * 1024)}MB`
TooLargeAlert(file) ==
    [text |-> "File too large. Maximum size is",
     mb |-> MaxSize(file) \div (1024 * 1024)]

\* lines 115-117: the path of the new object; Math.random() makes it a key
\* no object has, and the row inserted for it gets a new id
FreshKeys ==
    {k \in MediaIds : /\ k \notin storage
                      /\ \A r \in photosTable : r.id # k
                      /\ \A u \in up : u.key # k
                      /\ \A d \in dm : d.item # k
                      /\ k \notin media
                      /\ k # selectedMedia}
NewKey == CHOOSE k \in FreshKeys : \A j \in FreshKeys : k <= j

\* lines 145-148: the finally block of handleFileUpload
UploadFinally ==
    /\ isUploading' = FALSE
    /\ uploadProgress' = 0
    /\ isMobileMenuOpen' = FALSE

\* lines 94-126: handleFileUpload runs for the file picked in an input that
\* is enabled (lines 378 and 420); a file over the limit is refused with an
\* alert, another one starts the upload of its object. The handler keeps the
\* user and currentFolder of the render it was made in.
UploadCall(file) ==
    /\ Rendered
    /\ ~isUploading
    /\ IF user = NoUser
       THEN /\ navigated' = TRUE                               \* line 98
            /\ UNCHANGED <<isUploading, uploadProgress, up, alert>>
       ELSE IF TooLarge(file)
       THEN /\ alert' = TooLargeAlert(file)                    \* line 107
            /\ up' = up \cup {[pc |-> "tooLarge", file |-> file,
                               key |-> NoMedia, uid |-> user,
                               folder |-> currentFolder, before |-> View]}
            /\ UNCHANGED <<isUploading, uploadProgress, navigated>>
       ELSE /\ FreshKeys # {}
            /\ isUploading' = TRUE                             \* line 111
            /\ uploadProgress' = 0                             \* line 112
            /\ up' = up \cup {[pc |-> "awaitUpload", file |-> file,
                               key |-> NewKey, uid |-> user,
                               folder |-> currentFolder, before |-> View]}
            /\ UNCHANGED <<alert, navigated>>
    /\ UNCHANGED <<storage, media, selectedMedia, isMobileMenuOpen,
                   isDeletingMedia, isLoading, error, deps, ld, fm, cf, dm>>
    /\ UNCHANGED <<photosTable, foldersTable, folders, currentFolder,
                   fetchingFolders, df, dfResult>>
    /\ UNCHANGED <<retryVars, authVars>>

\* lines 107-108: the alert is closed, and the handler returns
CloseTooLargeAlert(u) ==
    /\ u \in up
    /\ u.pc = "tooLarge"
    /\ alert' = NoAlert
    /\ up' = up \ {u}
    /\ UNCHANGED <<storage, media, selectedMedia, isMobileMenuOpen,
                   isUploading, uploadProgress, isDeletingMedia, isLoading,
                   error, navigated, deps, ld, fm, cf, dm>>
    /\ UNCHANGED <<photosTable, foldersTable, folders, currentFolder,
                   fetchingFolders, df, dfResult>>
    /\ UNCHANGED <<retryVars, authVars>>

\* The percentages the progress callback may report.
Percents == {50, 100}

\* lines 122-125: onUploadProgress
UploadProgress(u, percent) ==
    /\ u \in up
    /\ u.pc = "awaitUpload"
    /\ uploadProgress # percent
    /\ uploadProgress' = percent
    /\ UNCHANGED <<storage, media, selectedMedia, isMobileMenuOpen,
                   isUploading, isDeletingMedia, isLoading, error, navigated,
                   deps, ld, fm, up, cf, dm, alert>>
    /\ UNCHANGED <<photosTable, foldersTable, folders, currentFolder,
                   fetchingFolders, df, dfResult>>
    /\ UNCHANGED <<retryVars, authVars>>

\* UploadStorageErr, were line 128 missing: the insert is issued all the same.
UploadStorageErrIgnored(u) ==
    /\ u \in up
    /\ u.pc = "awaitUpload"
    /\ up' = (up \ {u}) \cup {[u EXCEPT !.pc = "awaitInsert"]}
    /\ UNCHANGED <<storage, media, selectedMedia, isMobileMenuOpen,
                   isUploading, uploadProgress, isDeletingMedia, isLoading,
                   error, navigated, deps, ld, fm, cf, dm, alert>>
    /\ UNCHANGED <<photosTable, foldersTable, folders, currentFolder,
                   fetchingFolders, df, dfResult>>
    /\ UNCHANGED <<retryVars, authVars>>

\* lines 119-128 and 142-144: the upload reported an error
UploadStorageErr(u) ==
    /\ u \in up
    /\ u.pc = "awaitUpload"
    /\ up' = (up \ {u}) \cup {[u EXCEPT !.pc = "alert"]}
    /\ alert' = Alert("Error uploading file")                  \* line 144
    /\ UNCHANGED <<storage, media, selectedMedia, isMobileMenuOpen,
                   isUploading, uploadProgress, isDeletingMedia, isLoading,
                   error, navigated, deps, ld, fm, cf, dm>>
    /\ UNCHANGED <<photosTable, foldersTable, folders, currentFolder,
                   fetchingFolders, df, dfResult>>
    /\ UNCHANGED <<retryVars, authVars>>

\* lines 119-137: the upload succeeded: the object is stored, and the insert
\* of its row is issued
UploadStorageOk(u) ==
    /\ u \in up
    /\ u.pc = "awaitUpload"
    /\ storage' = storage \cup {u.key}
    /\ up' = (up \ {u}) \cup {[u EXCEPT !.pc = "awaitInsert"]}
    /\ UNCHANGED <<media, selectedMedia, isMobileMenuOpen, isUploading,
                   uploadProgress, isDeletingMedia, isLoading, error,
                   navigated, deps, ld, fm, cf, dm, alert>>
    /\ UNCHANGED <<photosTable, foldersTable, folders, currentFolder,
                   fetchingFolders, df, dfResult>>
    /\ UNCHANGED <<retryVars, authVars>>

\* lines 130-148: the insert succeeded: the row exists, fetchMedia() is
\* started and not awaited, and the finally block runs
UploadInsertOk(u) ==
    /\ u \in up
    /\ u.pc = "awaitInsert"
    /\ photosTable' = photosTable \cup
          {[PhotoRow(u.key, u.folder) EXCEPT !.uploaded_by = u.uid]}
    /\ fm' = fm \cup {[uid |-> u.uid, folder |-> u.folder]}     \* line 141
    /\ up' = up \ {u}
    /\ UploadFinally
    /\ UNCHANGED <<storage, media, selectedMedia, isDeletingMedia, isLoading,
                   error, navigated, deps, ld, cf, dm, alert>>
    /\ UNCHANGED <<foldersTable, folders, currentFolder, fetchingFolders, df,
                   dfResult>>
    /\ UNCHANGED <<retryVars, authVars>>

\* lines 130-139 and 142-144: the insert reported an error; the object stays
UploadInsertErr(u) ==
    /\ u \in up
    /\ u.pc = "awaitInsert"
    /\ up' = (up \ {u}) \cup {[u EXCEPT !.pc = "alert"]}
    /\ alert' = Alert("Error uploading file")                  \* line 144
    /\ UNCHANGED <<storage, media, selectedMedia, isMobileMenuOpen,
                   isUploading, uploadProgress, isDeletingMedia, isLoading,
                   error, navigated, deps, ld, fm, cf, dm>>
    /\ UNCHANGED <<photosTable, foldersTable, folders, currentFolder,
                   fetchingFolders, df, dfResult>>
    /\ UNCHANGED <<retryVars, authVars>>

\* lines 144-149: the alert is closed, and the finally block runs
CloseUploadAlert(u) ==
    /\ u \in up
    /\ u.pc = "alert"
    /\ alert' = NoAlert
    /\ up' = up \ {u}
    /\ UploadFinally
    /\ UNCHANGED <<storage, media, selectedMedia, isDeletingMedia, isLoading,
                   error, navigated, deps, ld, fm, cf, dm>>
    /\ UNCHANGED <<photosTable, foldersTable, folders, currentFolder,
                   fetchingFolders, df, dfResult>>
    /\ UNCHANGED <<retryVars, authVars>>

\* The ids the backend may give a folder row that createFolder inserts: ids
\* nothing refers to.
FreshFolderIds ==
    {f \in OwnFolderIds : /\ \A r \in foldersTable : r.id # f
                          /\ \A r \in photosTable : r.folder_id # f
                          /\ f \notin folders
                          /\ f # currentFolder
                          /\ \A k \in Slots : df[k].folderId # f
                          /\ \A k \in LoadSlots : ld[k].folder # f
                          /\ \A u \in up : u.folder # f
                          /\ \A d \in dm : d.folder # f
                          /\ \A g \in fm : g.folder # f}
NewFolderId == CHOOSE f \in FreshFolderIds : TRUE

\* The first free number for a createFolder invocation.
FreeCreate == CHOOSE n \in Slots :
                 /\ \A c \in cf : c.n # n
                 /\ \A j \in Slots : (\A c \in cf : c.n # j) => n <= j

\* lines 152-166: createFolder is called from one of its buttons (361, 402),
\* the user gives a name, and the insert of the folder row is issued
CreateFolderCall ==
    /\ Rendered
    /\ IF user = NoUser
       THEN /\ navigated' = TRUE                               \* line 154
            /\ UNCHANGED cf
       ELSE /\ \E n \in Slots : \A c \in cf : c.n # n
            /\ cf' = cf \cup {[n |-> FreeCreate, uid |-> user,
                               pc |-> "awaitInsert", before |-> View]}
            /\ UNCHANGED navigated
    /\ UNCHANGED <<storage, media, selectedMedia, isMobileMenuOpen,
                   isUploading, uploadProgress, isDeletingMedia, isLoading,
                   error, deps, ld, fm, up, dm, alert>>
    /\ UNCHANGED <<photosTable, foldersTable, folders, currentFolder,
                   fetchingFolders, df, dfResult>>
    /\ UNCHANGED <<retryVars, authVars>>

\* lines 161-170: the insert succeeded: the folder row exists, fetchFolders()
\* is started and the mobile menu closed
CreateFolderOk(c) ==
    /\ c \in cf
    /\ c.pc = "awaitInsert"
    /\ FreshFolderIds # {}
    /\ foldersTable' = foldersTable \cup
                          {[id |-> NewFolderId, user_id |-> c.uid]}
    /\ fetchingFolders' = TRUE                                 \* line 169
    /\ isMobileMenuOpen' = FALSE                               \* line 170
    /\ cf' = cf \ {c}
    /\ UNCHANGED <<storage, media, selectedMedia, isUploading, uploadProgress,
                   isDeletingMedia, isLoading, error, navigated, deps, ld, fm,
                   up, dm, alert>>
    /\ UNCHANGED <<photosTable, folders, currentFolder, df, dfResult>>
    /\ UNCHANGED <<retryVars, authVars>>

\* lines 161-168 and 171-173: the insert reported an error
CreateFolderErr(c) ==
    /\ c \in cf
    /\ c.pc = "awaitInsert"
    /\ cf' = (cf \ {c}) \cup {[c EXCEPT !.pc = "alert"]}
    /\ alert' = Alert("Error creating folder")                 \* line 173
    /\ UNCHANGED <<storage, media, selectedMedia, isMobileMenuOpen,
                   isUploading, uploadProgress, isDeletingMedia, isLoading,
                   error, navigated, deps, ld, fm, up, dm>>
    /\ UNCHANGED <<photosTable, foldersTable, folders, currentFolder,
                   fetchingFolders, df, dfResult>>
    /\ UNCHANGED <<retryVars, authVars>>

\* lines 173-175: the alert is closed, and the handler returns
CloseCreateFolderAlert(c) ==
    /\ c \in cf
    /\ c.pc = "alert"
    /\ alert' = NoAlert
    /\ cf' = cf \ {c}
    /\ UNCHANGED <<storage, media, selectedMedia, isMobileMenuOpen,
                   isUploading, uploadProgress, isDeletingMedia, isLoading,
                   error, navigated, deps, ld, fm, up, dm>>
    /\ UNCHANGED <<photosTable, foldersTable, folders, currentFolder,
                   fetchingFolders, df, dfResult>>
    /\ UNCHANGED <<retryVars, authVars>>

\* lines 473-476, as rendered: the trash button of a folder of the grid,
\* which is shown at the root only (line 437)
ClickDeleteFolder(k, folderId) ==
    /\ Rendered
    /\ ~TruthyFolder(currentFolder)
    /\ DeleteFolderCall(k, folderId)

---------------------------------------------------------------------------

InitRetry ==
    /\ online = TRUE
    /\ listeners = 0
    /\ caller = "none"
    /\ errorMessage = ""
    /\ onlineAtCall = TRUE
    /\ pc = "idle"
    /\ i = 0
    /\ lastError = JsUndefined
    /\ attempts = 0
    /\ delays = <<>>
    /\ onlineWaits = 0
    /\ hist = <<>>
    /\ retryResult = NoResult
    /\ outcome = NoResult

\* AuthContext.tsx lines 24-26: the provider before its effect has run
InitAuth ==
    /\ mounted = "no"
    /\ user = NoUser
    /\ session = NoSession
    /\ loading = TRUE
    /\ getSession = [st |-> "none", value |-> NoSession]
    /\ clientSession = NoSession
    /\ signOutPc = "idle"
    /\ signOutResult = "none"
    /\ signedInSince = FALSE
    /\ lastStep = "init"
    /\ lastEvent = NoSession

\* The provider once u1 has signed in: what a rendered Gallery reads
InitAuthSignedIn ==
    /\ mounted = "yes"
    /\ user = "u1"
    /\ session = [user |-> "u1", token |-> "t1"]
    /\ loading = FALSE
    /\ getSession = [st |-> "resolved", value |-> session]
    /\ clientSession = session
    /\ signOutPc = "idle"
    /\ signOutResult = "none"
    /\ signedInSince = TRUE
    /\ lastStep = "SIGNED_IN"
    /\ lastEvent = session

\* Gallery.tsx lines 17-27: the Gallery's state at its first render
InitView ==
    /\ media = {}
    /\ selectedMedia = NoMedia
    /\ isMobileMenuOpen = FALSE
    /\ isUploading = FALSE
    /\ uploadProgress = 0
    /\ isDeletingMedia = FALSE
    /\ isLoading = TRUE
    /\ error = FALSE
    /\ navigated = FALSE
    /\ deps = <<session, currentFolder>>
    /\ ld = [k \in LoadSlots |-> IdleLoad]
    /\ fm = {}
    /\ up = {}
    /\ cf = {}
    /\ dm = {}
    /\ alert = NoAlert

\* Gallery.tsx lines 17-27 and 29-48: the Gallery at its first render, its
\* first load in flight, over a backend that holds some rows already
InitGalleryWith(n1, n2) ==
    /\ photosTable = {PhotoRow(k, InitialFolderOf(k, n1, n2)) :
                        k \in 1..MaxPhotos}
    /\ foldersTable = InitialFolders
    /\ folders = {}
    /\ currentFolder = NoFolder
    /\ fetchingFolders = TRUE
    /\ df = [k \in Slots |-> IdleSlot]
    /\ dfResult = "none"
    /\ storage = {r.url : r \in photosTable}
    /\ InitView

Init == InitRetry /\ InitAuth /\ InitGalleryWith(0, 0)

InitGallery ==
    /\ InitRetry
    /\ InitAuthSignedIn
    /\ \E n1 \in 0..MaxPhotos : \E n2 \in 0..(MaxPhotos - n1) :
          InitGalleryWith(n1, n2)

\* The effect has not run yet.
NoDeps == <<[user |-> "none", token |-> "none"], NoFolder>>

\* Gallery.tsx lines 17-27: the Gallery at its first render, its effect not
\* yet run, for u1 signed in, over a backend that holds u1's media rows (the
\* first in f1, the others at the root), one root row of u2, and the objects
InitView1 ==
    /\ photosTable =
          {PhotoRow(k, InitialFolderOf(k, 1, 0)) : k \in 1..MaxMedia}
             \cup {[PhotoRow(MaxMedia + 1, NoFolder)
                       EXCEPT !.uploaded_by = "u2"]}
    /\ storage = {r.url : r \in photosTable}
    /\ foldersTable = InitialFolders
    /\ folders = {}
    /\ currentFolder = NoFolder
    /\ fetchingFolders = FALSE
    /\ df = [k \in Slots |-> IdleSlot]
    /\ dfResult = "none"
    /\ media = {}
    /\ selectedMedia = NoMedia
    /\ isMobileMenuOpen = FALSE
    /\ isUploading = FALSE
    /\ uploadProgress = 0
    /\ isDeletingMedia = FALSE
    /\ isLoading = TRUE
    /\ error = FALSE
    /\ navigated = FALSE
    /\ deps = NoDeps
    /\ ld = [k \in LoadSlots |-> IdleLoad]
    /\ fm = {}
    /\ up = {}
    /\ cf = {}
    /\ dm = {}
    /\ alert = NoAlert

InitLoad == InitRetry /\ InitAuthSignedIn /\ InitView1

\* The Gallery once its first load has succeeded, showing folder f, for u1
\* signed in: the backend holds u1's folder f1, u2's folder f3, and media
\* rows of u1 in f with their objects; one media id and one folder id are free
InitLoaded(f) ==
    /\ photosTable = {PhotoRow(k, f) : k \in 1..(MaxMedia - 1)}
    /\ storage = {r.url : r \in photosTable}
    /\ foldersTable = {[id |-> "f1", user_id |-> "u1"],
                       [id |-> "f3", user_id |-> "u2"]}
    /\ currentFolder = f
    /\ folders = FoldersOf(FetchFoldersQuery("u1"))
    /\ media = MediaOf(FetchMediaQuery("u1", f))
    /\ fetchingFolders = FALSE
    /\ df = [k \in Slots |-> IdleSlot]
    /\ dfResult = "none"
    /\ selectedMedia = NoMedia
    /\ isMobileMenuOpen = FALSE
    /\ isUploading = FALSE
    /\ uploadProgress = 0
    /\ isDeletingMedia = FALSE
    /\ isLoading = FALSE
    /\ error = FALSE
    /\ navigated = FALSE
    /\ deps = <<session, currentFolder>>
    /\ ld = [k \in LoadSlots |-> IdleLoad]
    /\ fm = {}
    /\ up = {}
    /\ cf = {}
    /\ dm = {}
    /\ alert = NoAlert

InitMedia == InitRetry /\ InitAuthSignedIn /\ InitLoaded(NoFolder)

InitOps ==
    /\ InitRetry
    /\ InitAuthSignedIn
    /\ \E f \in {NoFolder, "f1"} : InitLoaded(f)

\* The load effect, the navigation between folders and the session events.
NextLoad ==
    \/ EffectRun
    \/ \E k \in LoadSlots : LoadMediaOk(k)
    \/ \E k \in LoadSlots : LoadMediaFail(k)
    \/ \E k \in LoadSlots : LoadFoldersOk(k)
    \/ \E k \in LoadSlots : LoadFoldersFail(k)
    \/ \E f \in OwnFolderIds \cup {NoFolder} : OpenFolder(f)
    \/ TokenRefreshed
    \/ SignedOut

SpecLoad == InitLoad /\ [][NextLoad]_vars

\* The steps of handleFileUpload and deleteMedia that an open alert() defers.
MediaSteps ==
    \/ \E f \in fm : FetchMediaDone(f)
    \/ \E f \in fm : FetchMediaFail(f)
    \/ \E item \in MediaIds : DeleteMediaCall(item)
    \/ \E d \in dm : DeleteMediaStorageOk(d)
    \/ \E d \in dm : DeleteMediaStorageErr(d)
    \/ \E d \in dm : DeleteMediaRowOk(d)
    \/ \E d \in dm : DeleteMediaRowErr(d)
    \/ \E d \in dm : DeleteMediaFetchOk(d)
    \/ \E d \in dm : DeleteMediaFetchErr(d)
    \/ \E file \in Files : UploadCall(file)
    \/ \E u \in up, percent \in Percents : UploadProgress(u, percent)
    \/ \E u \in up : UploadStorageOk(u)
    \/ \E u \in up : UploadStorageErr(u)
    \/ \E u \in up : UploadInsertOk(u)
    \/ \E u \in up : UploadInsertErr(u)

\* Uploads and media deletions, free to overlap; alert() blocks the page, so
\* while a dialog is open the only step is to close it.
NextMedia ==
    \/ alert = NoAlert /\ MediaSteps
    \/ \E d \in dm : CloseDeleteMediaAlert(d)
    \/ \E u \in up : CloseTooLargeAlert(u)
    \/ \E u \in up : CloseUploadAlert(u)

SpecMedia == InitMedia /\ [][NextMedia]_vars

MaxActive == 1

\* The operations in flight: invocations of the four handlers, and the
\* fetches they started and do not await.
Active ==
    Cardinality(up) + Cardinality(dm) + Cardinality(cf) + Cardinality(fm)
       + Cardinality({k \in Slots : df[k].pc # "idle"})
       + (IF fetchingFolders THEN 1 ELSE 0)

\* What the user does on the page between two operations.
UserSteps ==
    \/ \E m \in MediaIds \cup {NoMedia} : SelectMedia(m)
    \/ ToggleMenu

\* The files picked here: an image within its limit, and one over it.
OpsFiles == {file \in Files : ~IsVideo(file) /\ file.size <= MaxSize(file) + 1
                                /\ file.size >= MaxSize(file)}

\* The four handlers are started.
OpCalls ==
    \/ \E item \in MediaIds : DeleteMediaCall(item)
    \/ \E file \in OpsFiles : UploadCall(file)
    \/ CreateFolderCall
    \/ \E k \in Slots, f \in OwnFolderIds : ClickDeleteFolder(k, f)

\* The four handlers go on.
OpSteps ==
    \/ \E f \in fm : FetchMediaDone(f)
    \/ \E f \in fm : FetchMediaFail(f)
    \/ FetchFoldersDone
    \/ FetchFoldersFail
    \/ \E d \in dm : DeleteMediaStorageOk(d)
    \/ \E d \in dm : DeleteMediaStorageErr(d)
    \/ \E d \in dm : DeleteMediaRowOk(d)
    \/ \E d \in dm : DeleteMediaRowErr(d)
    \/ \E d \in dm : DeleteMediaFetchOk(d)
    \/ \E d \in dm : DeleteMediaFetchErr(d)
    \/ \E u \in up : UploadStorageOk(u)
    \/ \E u \in up : UploadStorageErr(u)
    \/ \E u \in up : UploadInsertOk(u)
    \/ \E u \in up : UploadInsertErr(u)
    \/ \E c \in cf : CreateFolderOk(c)
    \/ \E c \in cf : CreateFolderErr(c)
    \/ \E k \in Slots : DeletePhotosOk(k)
    \/ \E k \in Slots, gone \in SUBSET photosTable : DeletePhotosErr(k, gone)
    \/ \E k \in Slots : DeleteFolderRowOk(k)
    \/ \E k \in Slots : DeleteFolderRowErr(k)

\* The four operations with at most MaxActive of them in flight, the user
\* acting on the page between them, and the session ending at any moment.
NextOps ==
    \/ alert = NoAlert /\ Active = 0 /\ UserSteps
    \/ alert = NoAlert /\ Active < MaxActive /\ OpCalls
    \/ alert = NoAlert /\ OpSteps
    \/ \E d \in dm : CloseDeleteMediaAlert(d)
    \/ \E u \in up : CloseTooLargeAlert(u)
    \/ \E u \in up : CloseUploadAlert(u)
    \/ \E c \in cf : CloseCreateFolderAlert(c)
    \/ alert = NoAlert /\ EffectRun
    \/ SignedOut

SpecOps == InitOps /\ [][NextOps]_vars

\* The Gallery once its first load has succeeded, showing the root, for u1
\* signed in: u1's first media row is in folder f1 and the others are at the
\* root, and every row has its object
InitStorage ==
    /\ InitRetry
    /\ InitAuthSignedIn
    /\ photosTable =
          {PhotoRow(k, InitialFolderOf(k, 1, 0)) : k \in 1..MaxPhotos}
    /\ storage = {r.url : r \in photosTable}
    /\ foldersTable = InitialFolders
    /\ currentFolder = NoFolder
    /\ folders = FoldersOf(FetchFoldersQuery("u1"))
    /\ media = MediaOf(FetchMediaQuery("u1", NoFolder))
    /\ fetchingFolders = FALSE
    /\ df = [k \in Slots |-> IdleSlot]
    /\ dfResult = "none"
    /\ selectedMedia = NoMedia
    /\ isMobileMenuOpen = FALSE
    /\ isUploading = FALSE
    /\ uploadProgress = 0
    /\ isDeletingMedia = FALSE
    /\ isLoading = FALSE
    /\ error = FALSE
    /\ navigated = FALSE
    /\ deps = <<session, currentFolder>>
    /\ ld = [k \in LoadSlots |-> IdleLoad]
    /\ fm = {}
    /\ up = {}
    /\ cf = {}
    /\ dm = {}
    /\ alert = NoAlert

\* The steps of deleteFolder and deleteMedia that an open alert() defers.
StorageSteps ==
    \/ \E item \in 1..MaxPhotos : DeleteMediaCall(item)
    \/ \E d \in dm : DeleteMediaStorageOk(d)
    \/ \E d \in dm : DeleteMediaStorageErr(d)
    \/ \E d \in dm : DeleteMediaRowOk(d)
    \/ \E d \in dm : DeleteMediaRowErr(d)
    \/ \E d \in dm : DeleteMediaFetchOk(d)
    \/ \E d \in dm : DeleteMediaFetchErr(d)
    \/ \E k \in Slots, f \in OwnFolderIds : ClickDeleteFolder(k, f)
    \/ \E k \in Slots : DeletePhotosOk(k)
    \/ \E k \in Slots, gone \in SUBSET photosTable : DeletePhotosErr(k, gone)
    \/ \E k \in Slots : DeleteFolderRowOk(k)
    \/ \E k \in Slots : DeleteFolderRowErr(k)
    \/ FetchFoldersDone
    \/ FetchFoldersFail

\* Folder deletions and media deletions, free to overlap.
NextStorage ==
    \/ alert = NoAlert /\ StorageSteps
    \/ \E d \in dm : CloseDeleteMediaAlert(d)

SpecStorage == InitStorage /\ [][NextStorage]_vars

NextRetry ==
    \/ StartFetch
    \/ \E label \in Labels : StartOperation(label)
    \/ GoOnline
    \/ GoOffline
    \/ \E e \in Rejections : OpReject(e)
    \/ TimerFire
    \/ \E v \in (IF caller = "fetch" THEN {JsResponse} ELSE ThunkResults) :
          OpResolve(v)

SpecRetry == Init /\ [][NextRetry]_vars

\* An invocation of operation() settles.
OpSettles ==
    \/ \E e \in Rejections : OpReject(e)
    \/ \E v \in (IF caller = "fetch" THEN {JsResponse} ELSE ThunkResults) :
          OpResolve(v)

\* withRetry with what its environment owes it: every invocation of the
\* operation settles, every timer fires, and the browser that is offline
\* comes online again.
LiveRetry ==
    /\ SpecRetry
    /\ WF_vars(OpSettles)
    /\ WF_vars(TimerFire)
    /\ WF_vars(GoOnline)

NextAuth ==
    \/ Mount
    \/ GetSessionRead
    \/ GetSessionResolve
    \/ \E s \in Sessions : SignedIn(s)
    \/ TokenRefreshed
    \/ SignedOut
    \/ SignOutCall
    \/ SignOutOk
    \/ \E result \in {"error", "threw"} : SignOutFail(result)
    \/ Unmount

SpecAuth == Init /\ [][NextAuth]_vars

NextGallery ==
    \/ \E f \in OwnFolderIds \cup {NoFolder} : SelectFolder(f)
    \/ FetchFoldersDone
    \/ FetchFoldersFail
    \/ \E k \in Slots, f \in OwnFolderIds : DeleteFolderCall(k, f)
    \/ \E k \in Slots : DeletePhotosOk(k)
    \/ \E k \in Slots, gone \in SUBSET photosTable : DeletePhotosErr(k, gone)
    \/ \E k \in Slots : DeleteFolderRowOk(k)
    \/ \E k \in Slots : DeleteFolderRowErr(k)

SpecGallery == InitGallery /\ [][NextGallery]_vars

---------------------------------------------------------------------------
(* Properties of lib/supabase.ts, checked under SpecRetry. *)

IsPrefix(p, s) == Len(p) <= Len(s) /\ SubSeq(s, 1, Len(p)) = p

Contains(s, sub) ==
    \E k \in 0..(Len(s) - Len(sub)) : SubSeq(s, k + 1, k + Len(sub)) = sub

\* How the latest invocation of operation() settled.
LastSettled == hist[Len(hist)]

\* The latest invocation of a supabaseOperation thunk resolved.
ThunkResolved ==
    /\ caller = "supabaseOperation"
    /\ hist # <<>>
    /\ LastSettled.kind = "resolve"

\* C1: with the default maxRetries = 5 and baseDelay = 1000 and no wait for
\* the device to come online, an operation that fails N times (N in 0..4) and
\* then succeeds makes withRetry return that success, after exactly N+1
\* invocations and backoff waits of 1000*2^0, ..., 1000*2^(N-1) ms in order.
C1_RetryReturnsAfterFailures ==
    (hist # <<>> /\ LastSettled.kind = "resolve" /\ onlineWaits = 0) =>
        LET N == Len(hist) - 1 IN
        /\ N \in 0..4
        /\ \A k \in 1..N : hist[k].kind = "reject"
        /\ pc = "done"
        /\ retryResult = Returned(LastSettled.value)
        /\ attempts = N + 1
        /\ Len(delays) = N
        /\ \A k \in 1..N : delays[k] = 1000 * 2^(k - 1)

C1_Witness ==
    /\ hist # <<>>
    /\ LastSettled.kind = "resolve"
    /\ onlineWaits = 0
    /\ attempts = 5
    /\ delays = <<1000, 2000, 4000, 8000>>
    /\ retryResult.kind = "return"

\* C2: after five consecutive failures withRetry makes no sixth attempt and
\* no fifth backoff, and throws the error of the fifth attempt to its direct
\* caller; the fetch wrapper then throws its fixed connectivity error.
C2_ExhaustedThrowsLastError ==
    /\ attempts <= 5
    /\ (Len(hist) = 5 /\ \A k \in 1..5 : hist[k].kind = "reject") =>
          /\ pc = "done"
          /\ attempts = 5
          /\ Len(delays) = 4
          /\ retryResult = Thrown(hist[5].value)
          /\ (caller = "fetch" =>
                /\ outcome.kind = "throw"
                /\ outcome.value.t = "Error"
                /\ outcome.value.message =
                      <<"Unable to connect to the server. Please check your internet connection.">>)

C2_Witness ==
    /\ caller = "fetch"
    /\ Len(hist) = 5
    /\ \A k \in 1..5 : hist[k].kind = "reject"
    /\ hist[5].value # hist[4].value
    /\ hist[5].value # hist[1].value
    /\ hist[5].value.t = "Error"
    /\ outcome.kind = "throw"

\* C3: while withRetry waits for the device to come online the operation is
\* not invoked; the 'online' event resumes it at once, in the same attempt
\* (i unchanged), with no backoff delay added and its listener removed.
C3_OfflineWaitIsFree ==
    [][ /\ (pc = "waitOnline" => ~online /\ listeners = 1)
        /\ (pc = "waitOnline" /\ ~online' =>
                UNCHANGED <<pc, i, attempts, delays, listeners, hist>>)
        /\ (pc = "waitOnline" /\ online' =>
                /\ pc' = "inOp"
                /\ attempts' = attempts + 1
                /\ attempts' = i + 1
                /\ listeners' = 0
                /\ UNCHANGED <<i, delays, hist>>)
        /\ (pc' = "waitOnline" /\ pc # "waitOnline" =>
                /\ ~online
                /\ attempts' = i'
                /\ (pc = "backoff" => delays' = delays))
      ]_vars

C3_Witness ==
    /\ pc = "inOp"
    /\ onlineWaits >= 1
    /\ attempts = 5
    /\ listeners = 0
    /\ Len(delays) = 4

\* C4: called while the device is offline, supabaseOperation throws the
\* offline error at once: the thunk is never invoked, and withRetry is not
\* entered (no wait for 'online', no listener, no backoff).
C4_OfflinePrecondition ==
    (caller = "supabaseOperation" /\ ~onlineAtCall) =>
        /\ pc = "done"
        /\ outcome.kind = "throw"
        /\ outcome.value.message =
              <<"You are currently offline. Please check your internet connection.">>
        /\ attempts = 0
        /\ hist = <<>>
        /\ onlineWaits = 0
        /\ listeners = 0
        /\ delays = <<>>
        /\ retryResult = NoResult

C4_Witness ==
    /\ caller = "supabaseOperation"
    /\ ~onlineAtCall
    /\ pc = "done"
    /\ outcome.kind = "throw"

\* C5: when the thunk resolves to {data: null, error: E}, supabaseOperation
\* throws an error whose message contains the label and E's message.
C5_ResultErrorIsLabelled ==
    (ThunkResolved /\ LastSettled.value.data = JsNull
                   /\ LastSettled.value.error # JsNull) =>
        /\ outcome.kind = "throw"
        /\ Contains(outcome.value.message, <<errorMessage>>)
        /\ Contains(outcome.value.message, LastSettled.value.error.message)

C5_Witness ==
    /\ ThunkResolved
    /\ LastSettled.value.data = JsNull
    /\ LastSettled.value.error = JsError(<<"boom">>)
    /\ outcome.kind = "throw"
    /\ errorMessage = "Error fetching media"

\* The 'no data returned' error, as supabaseOperation throws it.
IsNoDataThrow(o) ==
    /\ o.kind = "throw"
    /\ Contains(o.value.message, <<"No data returned from server">>)

\* C6 as stated: with error unset, empty or absent data (null, undefined, "",
\* []) makes supabaseOperation throw 'no data returned', and it returns only
\* data that is present and not empty.
C6_EmptyDataThrows ==
    (ThunkResolved /\ LastSettled.value.error = JsNull) =>
        /\ (LastSettled.value.data \in
                {JsNull, JsUndefined, JsEmptyString, JsEmptyArray} =>
              IsNoDataThrow(outcome))
        /\ (outcome.kind = "return" =>
              LastSettled.value.data \notin
                {JsNull, JsUndefined, JsEmptyString, JsEmptyArray})

\* C6 amended: with error unset, supabaseOperation throws 'no data returned'
\* exactly when data is falsy (null, undefined, "", 0); an empty array is
\* returned like any other array. It returns only when error is unset.
C6_FalsyDataThrows ==
    /\ (ThunkResolved /\ LastSettled.value.error = JsNull) =>
          /\ (LastSettled.value.data \in
                  {JsNull, JsUndefined, JsEmptyString, JsZero} =>
                IsNoDataThrow(outcome))
          /\ (LastSettled.value.data \in {JsEmptyArray, JsRows} =>
                outcome = Returned(LastSettled.value.data))
    /\ (caller = "supabaseOperation" /\ outcome.kind = "return") =>
          /\ ThunkResolved
          /\ LastSettled.value.error = JsNull
          /\ LastSettled.value.data \in {JsEmptyArray, JsRows}

C6_Witness ==
    /\ ThunkResolved
    /\ LastSettled.value = [data |-> JsEmptyArray, error |-> JsNull]
    /\ outcome = Returned(JsEmptyArray)

\* C7 as stated: every error supabaseOperation throws has a message that
\* begins with the label followed by ": ".
C7_EveryErrorIsPrefixed ==
    (caller = "supabaseOperation" /\ outcome.kind = "throw") =>
        IsPrefix(<<errorMessage, ": ">>, outcome.value.message)

\* C7 amended: the error of the offline precondition is the bare offline
\* message; every error thrown after the precondition passed (thunk rejected
\* after retries with an error object, result-level error, no data) begins
\* with the label followed by ": ".
C7_ErrorsAfterPreconditionArePrefixed ==
    (caller = "supabaseOperation" /\ outcome.kind = "throw") =>
        IF ~onlineAtCall
        THEN outcome.value.message =
               <<"You are currently offline. Please check your internet connection.">>
        ELSE IF retryResult.kind = "throw"
                /\ retryResult.value \in {JsNull, JsUndefined}
        THEN outcome.value.t = "TypeError"
        ELSE IsPrefix(<<errorMessage, ": ">>, outcome.value.message)

C7_Witness ==
    /\ caller = "supabaseOperation"
    /\ onlineAtCall
    /\ outcome.kind = "throw"
    /\ retryResult = Thrown(JsError(<<"boom">>))
    /\ outcome.value.message = <<errorMessage, ": ", "boom">>

---------------------------------------------------------------------------
(* Properties of contexts/AuthContext.tsx, checked under SpecAuth. *)

AuthEvents == {"SIGNED_IN", "TOKEN_REFRESHED", "SIGNED_OUT"}

\* The step that completes signOut() leaves user and session null, however
\* the remote call ended.
SignOutClearsAtCompletion ==
    lastStep = "signOut" => user = NoUser /\ session = NoSession

\* C8: once signOut() has completed, user and session are null whether the
\* remote sign-out succeeded, returned an error or threw; and after a
\* sign-out whose remote call failed the local state is not authenticated
\* again unless somebody has signed in since.
C8_SignOutClearsForGood ==
    /\ SignOutClearsAtCompletion
    /\ (signOutResult \in {"error", "threw"} /\ ~signedInSince) =>
          user = NoUser /\ session = NoSession

\* C9: the context starts in 'loading'; it leaves 'loading' only by the
\* getSession resolution or an auth-state-change event, and both leave it;
\* after an event the cached session and user are the event's (authenticated
\* iff that session is not null); nothing returns the context to 'loading'.
C9_SessionContextStates ==
    [][ /\ (mounted = "no" => loading /\ user = NoUser /\ session = NoSession)
        /\ (loading /\ ~loading' =>
                lastStep' \in AuthEvents \cup {"getSession"})
        /\ (lastStep' \in AuthEvents \cup {"getSession"} => ~loading')
        /\ (lastStep' \in AuthEvents =>
                /\ session' = lastEvent'
                /\ user' = (IF lastEvent' = NoSession THEN "null"
                            ELSE lastEvent'.user)
                /\ (user' # "null") <=> (lastEvent' # NoSession))
        /\ (~loading => ~loading')
      ]_vars

C9_Witness ==
    /\ getSession.st = "resolved"
    /\ lastStep = "TOKEN_REFRESHED"
    /\ session = [user |-> "u2", token |-> "t1"]
    /\ getSession.value = [user |-> "u1", token |-> "t1"]
    /\ user = "u2"
    /\ ~loading

---------------------------------------------------------------------------
(* Properties of pages/Gallery.tsx, checked under SpecGallery. *)

---------------------------------------------------------------------------
(* Properties of deleteMedia and handleFileUpload, checked under SpecMedia. *)

\* C11: deleteMedia removes the item's storage object first and issues the
\* delete of its row only once that removal has succeeded; if the removal
\* reports an error the invocation ends with no row delete issued and the row
\* kept; if the row delete fails after the removal, the row stays while its
\* object is gone, and nothing restores the object or removes the row.
C11_DeleteMediaOrder ==
    [][\A d \in dm :
          \* the removal ends: the row delete is issued with the object
          \* gone, or the invocation fails having touched nothing
          /\ (d.pc = "awaitStorage" /\ d \notin dm' =>
                \/ /\ [d EXCEPT !.pc = "awaitRow"] \in dm'
                   /\ d.item \notin storage'
                   /\ photosTable' = photosTable
                \/ /\ [d EXCEPT !.pc = "alert"] \in dm'
                   /\ storage' = storage
                   /\ photosTable' = photosTable)
          \* the row delete ends: the row is gone, or it stays without its
          \* object
          /\ (d.pc = "awaitRow" /\ d \notin dm' =>
                /\ d.item \notin storage
                /\ storage' = storage
                /\ \/ /\ [d EXCEPT !.pc = "awaitFetch"] \in dm'
                      /\ photosTable' = {r \in photosTable : r.id # d.item}
                   \/ /\ [d EXCEPT !.pc = "alert"] \in dm'
                      /\ photosTable' = photosTable)
          \* after a failure the invocation only ends: no further call
          /\ (d.pc = "alert" /\ d \notin dm' =>
                /\ dm' = dm \ {d}
                /\ storage' = storage
                /\ photosTable' = photosTable)
      ]_vars

\* The dangling row: the removal succeeded, the row delete failed.
C11_Witness ==
    \E d \in dm :
        /\ d.pc = "alert"
        /\ d.item \notin storage
        /\ \E r \in photosTable : r.id = d.item /\ r.url = d.item

\* C12: handleFileUpload tests the size before any call: a file whose type
\* starts with video/ goes on iff its size is at most 50MB, any other file iff
\* it is at most 5MB. A refused file causes no upload and no insert; an
\* accepted one whose two steps succeed causes one upload of its object and
\* then one insert of its row.
C12_SizeGate ==
    [][LET mb == 1024 * 1024
           accepted(file) ==
               \/ file.type = "video/mp4" /\ file.size <= 50 * mb
               \/ file.type # "video/mp4" /\ file.size <= 5 * mb
       IN  /\ \A u \in up' \ up :
                \* the call, and the later steps of the same invocation
                \/ /\ up = {}
                   /\ storage' = storage
                   /\ photosTable' = photosTable
                   /\ u.pc = (IF accepted(u.file) THEN "awaitUpload"
                                                  ELSE "tooLarge")
                \/ /\ up = {[u EXCEPT !.pc = "awaitUpload"]}
                   /\ accepted(u.file)
                   /\ u.pc \in {"awaitInsert", "alert"}
                \/ /\ up = {[u EXCEPT !.pc = "awaitInsert"]}
                   /\ u.pc = "alert"
           /\ \A u \in up \ up' :
                \* refused: the handler returns, nothing was called
                /\ (u.pc = "tooLarge" =>
                      /\ up' = {}
                      /\ storage' = storage
                      /\ photosTable' = photosTable)
                \* the upload succeeded: the one object is stored
                /\ (u.pc = "awaitUpload" /\ up' # {}
                      /\ (\A v \in up' : v.pc = "awaitInsert") =>
                      /\ u.key \notin storage
                      /\ storage' = storage \cup {u.key}
                      /\ photosTable' = photosTable)
                \* the insert succeeded: the one row is there
                /\ (u.pc = "awaitInsert" /\ up' = {} =>
                      /\ u.key \in storage
                      /\ storage' = storage
                      /\ \A r \in photosTable : r.id # u.key
                      /\ \E r \in photosTable' :
                            /\ r.id = u.key /\ r.url = u.key
                            /\ photosTable' = photosTable \cup {r})
      ]_vars

\* A video of exactly 50MB has been uploaded, and its insert is in flight.
C12_Witness ==
    \E u \in up :
        /\ u.pc = "awaitInsert"
        /\ u.file = [type |-> "video/mp4", size |-> 50 * 1024 * 1024]
        /\ u.key \in storage

---------------------------------------------------------------------------
(* Properties of the load effect, checked under SpecLoad. *)

\* C13: the query of fetchMedia filters on uploaded_by = the current user's
\* id, and on the folder: folder_id IS NULL when currentFolder is null,
\* folder_id = f when it is the folder f, and never folder_id = ''. A load
\* started by the effect issues it for the user and the folder of that
\* moment, and what it shows is the rows of that user in that folder.
C13_FetchMediaQueryFilters ==
    [][\A k \in LoadSlots :
          LET run == ld'[k]
              q == FetchMediaQuery(run.uid, run.folder)
              onFolder == {f \in q.filters : f.col = "folder_id"}
          IN  \* the load is started: its query
              /\ (ld[k].st = "idle" /\ run.st = "running" =>
                    /\ run.uid = user /\ user # NoUser
                    /\ run.folder = currentFolder
                    /\ q.table = "photos"
                    /\ [col |-> "uploaded_by", op |-> "eq", val |-> user]
                          \in q.filters
                    /\ onFolder =
                          IF currentFolder = NoFolder
                          THEN {[col |-> "folder_id", op |-> "is",
                                 val |-> "null"]}
                          ELSE {[col |-> "folder_id", op |-> "eq",
                                 val |-> currentFolder]}
                    /\ \A f \in q.filters : f.val # "")
              \* its fetchMedia ends: the list is kept, or is the rows of
              \* that user in that folder
              /\ (ld[k].fetchMedia = "pending" /\ run.fetchMedia # "pending"
                    /\ media' # media =>
                    media' = {r.id : r \in
                                {p \in photosTable :
                                    /\ p.uploaded_by = ld[k].uid
                                    /\ p.folder_id = ld[k].folder}})
      ]_vars

\* The root is shown after a load: u1's root rows, and not the root row of u2.
C13_Witness ==
    /\ currentFolder = NoFolder
    /\ ~isLoading /\ ~error
    /\ deps = <<session, currentFolder>>
    /\ media # {}
    /\ media = {r.id : r \in {p \in photosTable : /\ p.uploaded_by = user
                                                  /\ p.folder_id = NoFolder}}
    /\ \E r \in photosTable : r.folder_id = NoFolder /\ r.id \notin media
    /\ \E r \in photosTable : r.folder_id # NoFolder /\ r.uploaded_by = user

---------------------------------------------------------------------------
(* Properties of the row queries, checked under SpecGallery. *)

\* The query filters on the current user's id.
FiltersOnUser(q) ==
    \E f \in q.filters :
        /\ f.col \in {"uploaded_by", "user_id"}
        /\ f.op = "eq"
        /\ f.val = user

\* C14: every row query the Gallery has in flight (the two deletes of
\* deleteFolder, the row delete of deleteMedia, the lists of the loads)
\* carries a filter on the current user's id.
C14_EveryQueryFiltersOnUser ==
    /\ \A k \in Slots :
          /\ df[k].pc = "awaitPhotos" =>
                FiltersOnUser(DeletePhotosQuery(df[k].folderId))
          /\ df[k].pc = "awaitFolder" =>
                FiltersOnUser(DeleteFolderQuery(df[k].folderId))
    /\ \A d \in dm :
          d.pc = "awaitRow" => FiltersOnUser(DeleteMediaQuery(d.item))
    /\ \A k \in LoadSlots :
          /\ ld[k].fetchMedia = "pending" =>
                FiltersOnUser(FetchMediaQuery(ld[k].uid, ld[k].folder))
          /\ ld[k].fetchFolders = "pending" =>
                FiltersOnUser(FetchFoldersQuery(ld[k].uid))

---------------------------------------------------------------------------
(* Properties of the four operations together, checked under SpecOps. *)

\* The step issues a call to the backend: a storage or row call of a handler,
\* or a list query.
IssuesCall ==
    \/ \E d \in dm' \ dm : d.pc \in {"awaitStorage", "awaitRow", "awaitFetch"}
    \/ \E u \in up' \ up : u.pc \in {"awaitUpload", "awaitInsert"}
    \/ \E c \in cf' \ cf : c.pc = "awaitInsert"
    \/ \E k \in Slots : /\ df'[k].pc # df[k].pc
                        /\ df'[k].pc \in {"awaitPhotos", "awaitFolder"}
    \/ fm' \ fm # {}
    \/ fetchingFolders' /\ ~fetchingFolders
    \/ \E k \in LoadSlots : ld[k].st = "idle" /\ ld'[k].st = "running"

\* C15: the Gallery issues no backend call while no user is authenticated:
\* with user null the effect only navigates to the login view, and no handler
\* issues a call.
C15_NoCallWithoutUser ==
    [][user = NoUser =>
          /\ ~IssuesCall
          /\ (deps' # deps => navigated')
      ]_vars

\* C16: in handleFileUpload the insert is issued only once the upload has
\* stored the object: an upload error ends the invocation with nothing
\* stored and no insert; an insert error leaves the stored object without a
\* row, and nothing removes it; and however the handler ends, isUploading is
\* false and uploadProgress is 0 from then on.
C16_UploadFailures ==
    [][/\ \A u \in up \ up' :
            \* the upload ends: the insert is issued with the object
            \* stored, or nothing is stored and nothing issued
            /\ (u.pc = "awaitUpload" =>
                  \/ /\ up' = {[u EXCEPT !.pc = "awaitInsert"]}
                     /\ u.key \in storage'
                  \/ /\ up' = {[u EXCEPT !.pc = "alert"]}
                     /\ storage' = storage
                     /\ photosTable' = photosTable)
            \* the insert fails: the object stays, without a row
            /\ (u.pc = "awaitInsert" /\ up' # {} =>
                  /\ up' = {[u EXCEPT !.pc = "alert"]}
                  /\ u.key \in storage'
                  /\ \A r \in photosTable' : r.id # u.key /\ r.url # u.key
                  /\ storage' = storage
                  /\ photosTable' = photosTable)
            \* after the alert the handler only ends: no call, no rollback
            /\ (u.pc = "alert" =>
                  /\ up' = {}
                  /\ storage' = storage
                  /\ photosTable' = photosTable)
       \* the handler has finished
       /\ (up' = {} => ~isUploading' /\ uploadProgress' = 0)
      ]_vars

\* An upload has finished in failure after its insert failed: the flags are
\* reset, and its object is in storage with no row.
C16_Witness ==
    /\ up = {}
    /\ alert = NoAlert
    /\ ~isUploading
    /\ uploadProgress = 0
    /\ \E k \in storage : \A r \in photosTable : r.url # k

\* C17: a run of loadData starts both fetches together, with isLoading set
\* and the error cleared; when the run finishes isLoading is false, and the
\* error is set iff one of the run's two fetches failed.
C17_LoadFlags ==
    [][\A k \in LoadSlots :
          /\ (ld[k].st = "idle" /\ ld'[k].st = "running" =>
                /\ isLoading' /\ ~error'
                /\ ld'[k].fetchMedia = "pending"
                /\ ld'[k].fetchFolders = "pending")
          /\ (ld[k].st = "running" /\ ld'[k].st # "running" =>
                /\ ~isLoading'
                /\ error' <=> (LoadMediaFail(k) \/ LoadFoldersFail(k)))
      ]_vars

\* C18: when an upload, a media deletion, a folder creation or a folder
\* deletion fails, an alert is shown, and once the handler has ended the
\* media list, the folder list, the current folder, the selected media and
\* the menu state are what they were when the action was started.
C18_FailureLeavesView ==
    [][/\ \A u \in up \ up' :
            /\ [u EXCEPT !.pc = "alert"] \in up' => alert' # NoAlert
            /\ u.pc \in {"alert", "tooLarge"} => View' = u.before
       /\ \A d \in dm \ dm' :
            /\ [d EXCEPT !.pc = "alert"] \in dm' => alert' # NoAlert
            /\ d.pc = "alert" => View' = d.before
       /\ \A c \in cf \ cf' :
            /\ [c EXCEPT !.pc = "alert"] \in cf' => alert' # NoAlert
            /\ c.pc = "alert" => View' = c.before
       \* deleteFolder: no step of it but its successful end changes the view
       /\ \A k \in Slots :
            df'[k] # df[k] /\ ~(df'[k].pc = "idle" /\ dfResult' = "ok") =>
                View' = View
      ]_vars

---------------------------------------------------------------------------
(* A further property of lib/supabase.ts, checked under SpecRetry. *)

\* C19: supabaseOperation never retries a result that carries an error: a
\* thunk that resolves, with or without an error in its result, is not
\* invoked again, and a result with an error makes supabaseOperation throw;
\* the thunk is invoked again only after it rejected, and at most 5 times
\* in all.
C19_ResultErrorNotRetried ==
    caller = "supabaseOperation" =>
        /\ attempts = Len(hist) + (IF pc = "inOp" THEN 1 ELSE 0)
        /\ attempts <= 5
        /\ \A k \in 1..Len(hist) :
              hist[k].kind = "resolve" =>
                  /\ k = Len(hist)
                  /\ attempts = k
                  /\ pc = "done"
                  /\ Truthy(hist[k].value.error) => outcome.kind = "throw"
        /\ \A k \in 1..(attempts - 1) : hist[k].kind = "reject"

\* The first invocation resolved with an error in its result: one
\* invocation, no wait, and supabaseOperation has thrown.
C19_Witness ==
    /\ caller = "supabaseOperation"
    /\ Len(hist) = 1
    /\ hist[1].kind = "resolve"
    /\ Truthy(hist[1].value.error)
    /\ attempts = 1
    /\ delays = <<>>
    /\ pc = "done"
    /\ outcome.kind = "throw"

---------------------------------------------------------------------------
(* A further property of deleteMedia, checked under SpecMedia. *)

\* C20: at most one deleteMedia is in flight: an invocation goes on to its
\* first call only while isDeletingMedia is false, sets it, and resets it
\* when it ends, in success or in failure; so isDeletingMedia is true exactly
\* while an invocation is in flight. The flag does not keep an upload from
\* running beside the deletion.
C20_OneMediaDeletion ==
    [][/\ \A d \in dm' \ dm :
            d.pc = "awaitStorage" => ~isDeletingMedia /\ dm = {}
       /\ Cardinality(dm') <= 1
       /\ isDeletingMedia' <=> dm' # {}
       /\ \A d \in dm \ dm' :
            dm' = {} => d.pc \in {"awaitFetch", "alert"}
      ]_vars

\* A deletion and an upload are in flight together, each at its second call.
C20_Witness ==
    /\ isDeletingMedia
    /\ \E d \in dm : d.pc = "awaitRow"
    /\ \E u \in up : u.pc = "awaitInsert"

---------------------------------------------------------------------------
(* Properties of overlapping loads, checked under SpecLoad. *)

\* C21: isLoading is false only when no run of loadData is in flight; and
\* once every fetch has ended, with the effect run for the present user and
\* folder and no error shown, the media list shown is the result of the
\* query for the folder now selected.
C21_LatestLoadWins ==
    /\ ~isLoading => \A k \in LoadSlots : ld[k].st # "running"
    /\ (/\ \A k \in LoadSlots : ld[k] = IdleLoad
        /\ deps = <<session, currentFolder>>
        /\ user # NoUser
        /\ ~error) =>
          media = {r.id : r \in {p \in photosTable :
                                    /\ p.uploaded_by = user
                                    /\ p.folder_id = currentFolder}}

---------------------------------------------------------------------------
(* A further property of contexts/AuthContext.tsx, checked under SpecAuth. *)

\* C22: the getSession result never replaces the session of a later event:
\* when it resolves right after an auth-state-change event was delivered,
\* the cached session and user stay that event's; and once the subscription
\* has been released at unmount, the cached session and user are not
\* written.
C22_NoStaleSessionWrite ==
    [][/\ (getSession.st = "read" /\ getSession'.st = "resolved"
              /\ lastStep \in AuthEvents =>
                /\ session' = lastEvent
                /\ user' = UserOf(lastEvent))
       /\ (mounted = "gone" => session' = session /\ user' = user)
      ]_vars

---------------------------------------------------------------------------
(* Properties of the storage objects, checked under SpecStorage. *)

\* Every storage object is the object of some media row.
EveryObjectReferenced ==
    \A k \in storage : \E r \in photosTable : r.url = k

\* C23: deleteFolder deletes rows only: none of its steps changes the
\* storage, so the objects of the rows its first delete removed stay, with no
\* row that refers to them, and stay when the folder delete has succeeded
\* too. The steps of deleteMedia, which removes the object before the row,
\* keep every object referenced by a row.
C23_DeleteFolderLeavesObjects ==
    [][/\ \A k \in Slots :
            /\ df'[k] # df[k] => storage' = storage
            /\ (df[k].pc = "awaitPhotos" /\ df'[k].pc = "awaitFolder" =>
                  \A r \in photosTable :
                      r.folder_id = df[k].folderId /\ r.url \in storage =>
                          /\ r.url \in storage'
                          /\ \A p \in photosTable' : p.url # r.url)
            /\ (df[k].pc = "awaitFolder" /\ df'[k].pc = "idle" =>
                  \A id \in df[k].removed :
                      /\ (id \in storage => id \in storage')
                      /\ \A p \in photosTable' : p.url # id)
       /\ (dm' # dm /\ EveryObjectReferenced => EveryObjectReferenced')
      ]_vars

\* A folder deletion and a media deletion have both gone through: the
\* object of the folder's media is there with no row, and the deleted item
\* has neither row nor object.
C23_Witness ==
    /\ dfResult = "ok"
    /\ \A k \in Slots : df[k].pc = "idle"
    /\ dm = {}
    /\ \A r \in foldersTable : r.id # "f1"
    /\ 1 \in storage
    /\ \A r \in photosTable : r.url # 1
    /\ \E id \in 2..MaxPhotos :
          id \notin storage /\ \A r \in photosTable : r.id # id

---------------------------------------------------------------------------
(* Termination of withRetry, checked under LiveRetry. *)

\* C24: a call of withRetry that is under way settles, having invoked the
\* operation 5 times at most, when every invocation settles, every timer
\* fires and every offline period ends; and the wait for the browser to come
\* online ends by the 'online' event only: no timeout and no cancellation
\* ends it, so a call waiting in a browser that stays offline never settles.
C24_WithRetrySettles ==
    /\ [](attempts <= 5)
    /\ (pc \in {"waitOnline", "inOp", "backoff"}) ~> (pc = "done")
    /\ [][pc = "waitOnline" /\ pc' # "waitOnline" => ~online /\ online']_vars

\* supabaseOperation passed its check online, the browser went offline
\* during the call, and withRetry waits for the 'online' event before its
\* fifth invocation.
C24_Witness ==
    /\ caller = "supabaseOperation"
    /\ onlineAtCall
    /\ ~online
    /\ pc = "waitOnline"
    /\ attempts = 4
    /\ retryResult = NoResult

===========================================================================
